---- MODULE Spec2Model ----
(***************************************************************************)
(* AI-UGC-Maker: the five-stage wizard of App.tsx and its client-side      *)
(* compositor (Step5Finishing.combineVideosAndAudio).                      *)
(*                                                                         *)
(* The specifications of this module share its variables:                  *)
(*   SpecComp  one composition attempt of the final stage: handleCombine,  *)
(*             combineVideosAndAudio, the recorder, the narration source,  *)
(*             the clip playback chain and the render loop, on a discrete  *)
(*             clock whose unit is one second of media time and on which   *)
(*             the render loop runs once per unit;                         *)
(*   SpecStudio  the wizard from the first mount of stage 4 on: the scene  *)
(*             images, the video list, the requests in flight, the         *)
(*             compositions started, Back, Next and the restart;           *)
(*   SpecScripted  SpecStudio with the script and narration handlers of    *)
(*             stage 3;                                                    *)
(*   SpecIntake  the wizard from the start of the program through stages   *)
(*             1 to 3, up to the first mount of stage 4;                   *)
(*   SpecGender, SpecVideo, SpecImages  one call of a gateway function     *)
(*             (geminiService.ts) followed statement by statement, with    *)
(*             the handler that awaits it;                                 *)
(*   SpecExtract, SpecFormat  one function applied on its own to each of   *)
(*             its inputs (extractImageUrl, the recorder format probe).    *)
(***************************************************************************)
EXTENDS Integers, Sequences, FiniteSets, TLC

\* ------------------------------------------------------------------------
\* Bounds of the model
\* ------------------------------------------------------------------------
\* longest clip, in clock units
MaxDur == 4
\* longest narration, in clock units
MaxT == 12

\* ------------------------------------------------------------------------
\* Program constants
\* ------------------------------------------------------------------------
\* the wizard produces and requires three clips (hook, usage, call-to-action)
NumClips == 3

Null == "null"
\* a null index (regeneratingImageIndex, regeneratingVideoIndex)
NoIndex == -1
\* Entries of studio.adImages and studio.adVideos.  A scene image is
\* [kind |-> "image", slot]: generated from prompt `slot` (0-based).  A video
\* is [kind |-> "video", slot]: made from the scene image of `slot`.
\* an array index that was never assigned (a hole of a sparse JS array)
Hole == [kind |-> "hole", slot |-> 0]
\* an array element holding the value undefined
Undef == [kind |-> "undefined", slot |-> 0]
Image(i) == [kind |-> "image", slot |-> i]
\* the object URL generateVideo returns for the scene image img
VideoOf(img) == [kind |-> "video", slot |-> img.slot]
IsImage(e) == e.kind = "image"
IsVideo(e) == e.kind = "video"

\* mimeTypesToTry, in order of preference
mimeTypesToTry == << "mp4codecs", "mp4", "webmcodecs", "webm" >>

VARIABLES
    \* ---- App state ----
    currentStep,        \* 1..5
    product,            \* [image, name]: an image is present, the name is non-blank
    model,              \* [image]: a model image is present
    adsCopy,            \* [script, audioUrl]: the script is non-empty, an audio URL is present
    studio,             \* [adImages, adVideos]
    \* ---- the mounted step component and the work in flight ----
    local,              \* useState of the mounted Step2Model/Step3AdsCopy/Step4Studio
    requests,           \* gateway requests whose promise is pending
    compositions,       \* handleCombine calls that have not settled
    \* ---- Step5Finishing component state and props ----
    pc,                 \* position of handleCombine / combineVideosAndAudio
    exitPath,           \* how the attempt left handleCombine ("none" while running)
    isLoading, error, finalVideo, captionData,
    videoUrls,          \* the adVideos prop handed to combineVideosAndAudio
    \* ---- resources of the attempt ----
    audioCtx,           \* "none" | "open" | "closed"
    loadStarted,        \* the fetch/decode of the narration and video.load() were issued
    audioBuffer,        \* duration T of the decoded narration, 0 before decoding
    videos,             \* per clip: its duration once loaded, 0 for undefined
    probed,             \* the format probe has run
    mimeType,           \* supportedMimeType, Null when none
    recorder,           \* "none" | "inactive" | "recording"
    chunks,             \* number of non-empty chunks pushed
    recorderPromise,    \* "none" | "pending" | "resolved" | "rejectedEmpty" | "rejectedFault"
    recorderEvents,     \* events the recorder still has to fire: "none" | "data" | "stop"
    animationFrameId,   \* TRUE while a requestAnimationFrame callback is scheduled
    loopStarted,        \* the render loop was started (line 756 reached)
    lastDrawn,          \* what the last render iteration drew, at which clock value
    currentVideoIndex,  \* 0-based, as in the source
    playing,            \* 1-based index of the clip that is playing, 0 for none
    clipEndAt,          \* clock value at which the playing clip ends
    playRejected,       \* a rejected video.play() promise waits for its catch handler
    playFailed,         \* some video.play() was rejected in this attempt
    audioPlaying,       \* the narration source is playing
    faulted,            \* the recorder reported an error
    now,                \* clock, 0 at recorder.start()
    stoppedAt,          \* clock value when the recorder left "recording", -1 before
    gateway             \* the call that is followed step by step (a gateway function,
                        \* or a function applied on its own), NoCall for none

hcVars == << pc, exitPath, isLoading, error, finalVideo, captionData >>
loadVars == << audioCtx, loadStarted, audioBuffer, videos, probed, mimeType >>
recVars == << recorder, chunks, recorderPromise, recorderEvents, faulted, stoppedAt >>
loopVars == << animationFrameId, loopStarted, lastDrawn >>
playVars == << currentVideoIndex, playing, clipEndAt, playRejected, playFailed >>
mediaVars == << hcVars, videoUrls, loadVars, recVars, loopVars, playVars, audioPlaying, now >>
compVars == << mediaVars, gateway >>

compOnly == << pc, exitPath, loadVars, recVars, loopVars, playVars, audioPlaying, now, gateway >>
appVars == << currentStep, product, model, adsCopy, studio, local, requests, compositions >>
wizOnly == << appVars, gateway >>

vars == << wizOnly, compVars >>

\* ------------------------------------------------------------------------
\* Pure helpers of combineVideosAndAudio
\* ------------------------------------------------------------------------
Range(s) == { s[i] : i \in 1..Len(s) }

\* SupportedMimeType taking the last supported candidate, not the first
SupportedMimeTypeLast(sup) ==
    IF \E i \in 1..Len(mimeTypesToTry) : mimeTypesToTry[i] \in sup
    THEN mimeTypesToTry[CHOOSE i \in 1..Len(mimeTypesToTry) :
                            /\ mimeTypesToTry[i] \in sup
                            /\ \A j \in (i+1)..Len(mimeTypesToTry) : mimeTypesToTry[j] \notin sup]
    ELSE Null

\* mimeTypesToTry.find(type => MediaRecorder.isTypeSupported(type))
SupportedMimeType(sup) ==
    IF \E i \in 1..Len(mimeTypesToTry) : mimeTypesToTry[i] \in sup
    THEN mimeTypesToTry[CHOOSE i \in 1..Len(mimeTypesToTry) :
                            /\ mimeTypesToTry[i] \in sup
                            /\ \A j \in 1..(i-1) : mimeTypesToTry[j] \notin sup]
    ELSE Null

\* supportedMimeType.includes('webm') ? 'webm' : 'mp4'
Extension(mt) == IF mt \in {"webmcodecs", "webm"} THEN "webm" ELSE "mp4"

\* VideoToDraw without the `|| videos[videos.length - 1]` fallback
VideoToDrawNoFallback(vs, idx) ==
    IF idx + 1 <= Len(vs) /\ vs[idx + 1] # 0 THEN idx + 1 ELSE 0

\* videos[currentVideoIndex] || videos[videos.length - 1], as the 1-based index
\* of the element handed to drawImage; 0 when videoToDraw is undefined
VideoToDraw(vs, idx) ==
    IF idx + 1 <= Len(vs) /\ vs[idx + 1] # 0 THEN idx + 1
    ELSE IF Len(vs) >= 1 /\ vs[Len(vs)] # 0 THEN Len(vs)
    ELSE 0

\* ------------------------------------------------------------------------
\* One composition attempt (Step5Finishing)
\* ------------------------------------------------------------------------
NoVideo == [url |-> Null, extension |-> "mp4"]

\* no gateway call is followed
NoCall == [fn |-> "none"]
\* the useState initial values of a step component
FreshLocal == [isLoading |-> Null, regeneratingImageIndex |-> NoIndex,
               regeneratingVideoIndex |-> NoIndex, error |-> Null]
NeverDrawn == [clip |-> 0, idx |-> 0, at |-> -1]

\* the clip lists the wizard can hand to the final stage: three entries, each
\* a video URL or a hole left by an out-of-range write of handleRegenerateVideo
\* (WizardInputsReachable checks this set against the wizard)
ClipLists ==
    LET v(i) == VideoOf(Image(i))
    IN  { << v(0), v(1), v(2) >>, << v(0), Hole, v(2) >>, << Hole, Hole, v(2) >> }

InitComp ==
    /\ currentStep = 5
    /\ product = [image |-> TRUE, name |-> TRUE]
    /\ model = [image |-> TRUE]
    /\ adsCopy = [script |-> TRUE, audioUrl |-> TRUE]
    /\ videoUrls \in ClipLists
    /\ studio = [adImages |-> << Image(0), Image(1), Image(2) >>, adVideos |-> videoUrls]
    /\ local = FreshLocal
    /\ requests = {}
    /\ compositions = {}
    /\ pc = "mount"
    /\ exitPath = "none"
    /\ isLoading = FALSE
    /\ error = Null
    /\ finalVideo \in { NoVideo, [url |-> "blob", extension |-> "mp4"],
                        [url |-> "blob", extension |-> "webm"] }
    /\ captionData = Null
    /\ audioCtx = "none"
    /\ loadStarted = FALSE
    /\ audioBuffer = 0
    /\ videos = << >>
    /\ probed = FALSE
    /\ mimeType = Null
    /\ recorder = "none"
    /\ chunks = 0
    /\ recorderPromise = "none"
    /\ recorderEvents = "none"
    /\ faulted = FALSE
    /\ stoppedAt = -1
    /\ animationFrameId = FALSE
    /\ loopStarted = FALSE
    /\ lastDrawn = NeverDrawn
    /\ currentVideoIndex = 0
    /\ playing = 0
    /\ clipEndAt = -1
    /\ playRejected = FALSE
    /\ playFailed = FALSE
    /\ audioPlaying = FALSE
    /\ now = 0
    /\ gateway = NoCall

\* handleCombine: `if (finalVideo.url || isLoading) return;`
HandleCombineSkip ==
    /\ pc = "mount"
    /\ (finalVideo.url # Null \/ isLoading)
    /\ pc' = "done"
    /\ exitPath' = "skipped"
    /\ UNCHANGED << isLoading, error, finalVideo, captionData, videoUrls, loadVars,
                    recVars, loopVars, playVars, audioPlaying, now >>

    /\ UNCHANGED wizOnly
\* handleCombine, then combineVideosAndAudio up to `throw new Error("Could not
\* get canvas context")`: nothing was acquired yet; catch and finally run
HandleCombineNoCanvas ==
    /\ pc = "mount"
    /\ ~(finalVideo.url # Null \/ isLoading)
    /\ pc' = "done"
    /\ exitPath' = "noCanvas"
    /\ isLoading' = FALSE
    /\ error' = "noCanvas"
    /\ finalVideo' = NoVideo
    /\ UNCHANGED << captionData, videoUrls, loadVars, recVars, loopVars, playVars,
                    audioPlaying, now >>

    /\ UNCHANGED wizOnly
\* handleCombine, then combineVideosAndAudio up to the await of Promise.all:
\* the audio context exists and the narration fetch and every video.load()
\* have been issued
HandleCombineStart ==
    /\ pc = "mount"
    /\ ~(finalVideo.url # Null \/ isLoading)
    /\ pc' = "loading"
    /\ isLoading' = TRUE
    /\ error' = Null
    /\ finalVideo' = NoVideo
    /\ audioCtx' = "open"
    /\ loadStarted' = TRUE
    /\ UNCHANGED << exitPath, captionData, videoUrls, audioBuffer, videos,
                    probed, mimeType, recVars, loopVars, playVars, audioPlaying, now >>

    /\ UNCHANGED wizOnly
\* LoadFail with a load that tolerates failed clips (Promise.allSettled): the
\* failure is dropped and the attempt goes on to record
LoadFailTolerated ==
    /\ pc = "loading"
    /\ \E i \in 1..Len(videoUrls) : IsVideo(videoUrls[i])
    /\ exitPath' = "clipLoadFail"
    /\ pc' = "recording"
    /\ recorder' = "recording"
    /\ recorderPromise' = "pending"
    /\ UNCHANGED << isLoading, error, finalVideo, captionData, videoUrls, loadVars, chunks,
                    recorderEvents, faulted, stoppedAt, loopVars, playVars, audioPlaying, now >>

    /\ UNCHANGED wizOnly
\* Promise.all rejects: the narration fails to fetch/decode ("audio") or a clip
\* element fires onerror ("clip"); handleCombine's catch and finally run.
\* Holes are skipped by videoUrls.map, so only a real URL can fail to load.
LoadFail ==
    /\ pc = "loading"
    /\ \E what \in {"audio", "clip"} :
         /\ what = "clip" => \E i \in 1..Len(videoUrls) : IsVideo(videoUrls[i])
         /\ exitPath' = (IF what = "clip" THEN "clipLoadFail" ELSE "audioDecodeFail")
         /\ error' = (IF what = "clip" THEN "videoLoadFailed" ELSE "audioDecodeFailed")
    /\ pc' = "done"
    /\ isLoading' = FALSE
    /\ UNCHANGED << finalVideo, captionData, videoUrls, loadVars, recVars, loopVars,
                    playVars, audioPlaying, now >>

    /\ UNCHANGED wizOnly
\* what Promise.all resolves `videos` to: an element (its duration d[i]) per
\* URL, undefined (0) per hole
LoadedVideos(urls, d) == [ i \in 1..Len(urls) |-> IF IsVideo(urls[i]) THEN d[i] ELSE 0 ]

\* LoadOkUnsupported without the throw: the context is closed and the code
\* falls through to create and start a recorder with no mimeType
LoadOkUnsupportedNoThrow ==
    /\ pc = "loading"
    /\ \E T \in 1..MaxT, d \in [1..NumClips -> 1..MaxDur] :
         /\ audioBuffer' = T
         /\ videos' = [ i \in 1..Len(videoUrls) |-> IF IsVideo(videoUrls[i]) THEN d[i] ELSE 0 ]
    /\ probed' = TRUE
    /\ mimeType' = Null
    /\ audioCtx' = "closed"
    /\ recorder' = "recording"
    /\ recorderPromise' = "pending"
    /\ pc' = "recording"
    /\ UNCHANGED << exitPath, isLoading, error, finalVideo, captionData, videoUrls,
                    loadStarted, chunks, recorderEvents, faulted, stoppedAt, loopVars,
                    playVars, audioPlaying, now >>

    /\ UNCHANGED wizOnly
\* Promise.all resolves and no candidate format is supported:
\* audioCtx.close(); throw; handleCombine's catch and finally run
LoadOkUnsupported ==
    /\ pc = "loading"
    /\ \E T \in 1..MaxT, d \in [1..NumClips -> 1..MaxDur], sup \in SUBSET Range(mimeTypesToTry) :
         /\ SupportedMimeType(sup) = Null
         /\ audioBuffer' = T
         /\ videos' = LoadedVideos(videoUrls, d)
    /\ probed' = TRUE
    /\ mimeType' = Null
    /\ audioCtx' = "closed"
    /\ pc' = "done"
    /\ exitPath' = "unsupported"
    /\ error' = "unsupportedFormat"
    /\ isLoading' = FALSE
    /\ UNCHANGED << finalVideo, captionData, videoUrls, loadStarted, recVars, loopVars,
                    playVars, audioPlaying, now >>

    /\ UNCHANGED wizOnly
\* recorder.stop(): the recorder becomes inactive at once and its stop event
\* (preceded by the final dataavailable) is queued
RecorderStop ==
    /\ recorder' = "inactive"
    /\ recorderEvents' = "data"
    /\ stoppedAt' = now

\* playNextVideo for index idx at clock value t, over the loaded elements vs;
\* ok is the outcome of video.play().  Past the end nothing is started.  An
\* undefined element makes `video.onended = ...` throw (callers handle that).
PlayNextVideo(vs, idx, t, ok) ==
    IF idx >= Len(vs) \/ vs[idx + 1] = 0
    THEN /\ playing' = 0
         /\ clipEndAt' = -1
         /\ UNCHANGED << playRejected, playFailed >>
    ELSE IF ok
    THEN /\ playing' = idx + 1
         /\ clipEndAt' = t + vs[idx + 1]
         /\ UNCHANGED << playRejected, playFailed >>
    ELSE /\ playing' = 0
         /\ clipEndAt' = -1
         /\ playRejected' = TRUE
         /\ playFailed' = TRUE

\* Promise.all resolves and a format is supported: the rest of
\* combineVideosAndAudio runs to `return recorderPromise` (lines 662-758)
LoadOkRecord ==
    /\ pc = "loading"
    /\ \E T \in 1..MaxT, d \in [1..NumClips -> 1..MaxDur], sup \in SUBSET Range(mimeTypesToTry),
          ok \in BOOLEAN :
         /\ SupportedMimeType(sup) # Null
         /\ LoadedVideos(videoUrls, d)[1] # 0
         /\ audioBuffer' = T
         /\ videos' = LoadedVideos(videoUrls, d)
         /\ mimeType' = SupportedMimeType(sup)
         /\ PlayNextVideo(LoadedVideos(videoUrls, d), 0, 0, ok)
    /\ probed' = TRUE
    /\ recorder' = "recording"
    /\ recorderPromise' = "pending"
    /\ audioPlaying' = TRUE
    /\ now' = 0
    /\ currentVideoIndex' = 0
    /\ animationFrameId' = TRUE
    /\ loopStarted' = TRUE
    /\ pc' = "recording"
    /\ UNCHANGED << exitPath, isLoading, error, finalVideo, captionData, videoUrls,
                    audioCtx, loadStarted, chunks, recorderEvents, faulted, stoppedAt,
                    lastDrawn >>

    /\ UNCHANGED wizOnly
\* as LoadOkRecord, but videos[0] is undefined: playNextVideo throws a
\* TypeError at line 732, after recorder.start() and audioSource.start(0) and
\* before the render loop is started; handleCombine's catch and finally run
\* while the recorder keeps recording
LoadOkTypeError ==
    /\ pc = "loading"
    /\ \E T \in 1..MaxT, d \in [1..NumClips -> 1..MaxDur], sup \in SUBSET Range(mimeTypesToTry) :
         /\ SupportedMimeType(sup) # Null
         /\ LoadedVideos(videoUrls, d)[1] = 0
         /\ audioBuffer' = T
         /\ videos' = LoadedVideos(videoUrls, d)
         /\ mimeType' = SupportedMimeType(sup)
    /\ probed' = TRUE
    /\ recorder' = "recording"
    /\ recorderPromise' = "pending"
    /\ audioPlaying' = TRUE
    /\ now' = 0
    /\ currentVideoIndex' = 0
    /\ pc' = "done"
    /\ exitPath' = "typeError"
    /\ error' = "typeError"
    /\ isLoading' = FALSE
    /\ UNCHANGED << finalVideo, captionData, videoUrls, audioCtx, loadStarted, chunks,
                    recorderEvents, faulted, stoppedAt, loopVars, playVars >>

    /\ UNCHANGED wizOnly
\* VideoOnEnded that also stops the recorder when the last clip has ended
VideoOnEndedStopsRecorder ==
    /\ playing # 0
    /\ now = clipEndAt
    /\ currentVideoIndex' = currentVideoIndex + 1
    /\ \E ok \in BOOLEAN : PlayNextVideo(videos, currentVideoIndex + 1, now, ok)
    /\ IF currentVideoIndex + 1 >= Len(videos) /\ recorder = "recording"
       THEN RecorderStop
       ELSE UNCHANGED << recorder, recorderEvents, stoppedAt >>
    /\ UNCHANGED << hcVars, videoUrls, loadVars, chunks, recorderPromise, faulted, loopVars,
                    audioPlaying, now >>

    /\ UNCHANGED wizOnly
\* VideoOnEnded without `currentVideoIndex++`: the same clip is played again
VideoOnEndedNoAdvance ==
    /\ playing # 0
    /\ now = clipEndAt
    /\ currentVideoIndex' = currentVideoIndex
    /\ \E ok \in BOOLEAN : PlayNextVideo(videos, currentVideoIndex, now, ok)
    /\ UNCHANGED << hcVars, videoUrls, loadVars, recVars, loopVars, audioPlaying, now >>

    /\ UNCHANGED wizOnly
\* video.onended of the playing clip: currentVideoIndex++, playNextVideo().
\* When the next element is undefined the handler throws after the increment
\* and the chain ends there.
VideoOnEnded ==
    /\ playing # 0
    /\ now = clipEndAt
    /\ currentVideoIndex' = currentVideoIndex + 1
    /\ \E ok \in BOOLEAN : PlayNextVideo(videos, currentVideoIndex + 1, now, ok)
    /\ UNCHANGED << hcVars, videoUrls, loadVars, recVars, loopVars, audioPlaying, now >>

    /\ UNCHANGED wizOnly
\* video.play().catch(...): `if (recorder.state === 'recording') recorder.stop()`
PlayCatch ==
    /\ playRejected
    /\ playRejected' = FALSE
    /\ IF recorder = "recording"
       THEN RecorderStop
       ELSE UNCHANGED << recorder, recorderEvents, stoppedAt >>
    /\ UNCHANGED << hcVars, videoUrls, loadVars, chunks, recorderPromise, faulted, loopVars,
                    currentVideoIndex, playing, clipEndAt, playFailed, audioPlaying, now >>

    /\ UNCHANGED wizOnly
\* AudioOnEnded that does not stop the recorder
AudioOnEndedNoStop ==
    /\ audioPlaying
    /\ now = audioBuffer
    /\ audioPlaying' = FALSE
    /\ UNCHANGED << hcVars, videoUrls, loadVars, recVars, loopVars, playVars, now >>

    /\ UNCHANGED wizOnly
\* audioSource.onended, fired when the narration has played for its duration:
\* `if (recorder.state === 'recording') recorder.stop()`
AudioOnEnded ==
    /\ audioPlaying
    /\ now = audioBuffer
    /\ audioPlaying' = FALSE
    /\ IF recorder = "recording"
       THEN RecorderStop
       ELSE UNCHANGED << recorder, recorderEvents, stoppedAt >>
    /\ UNCHANGED << hcVars, videoUrls, loadVars, chunks, recorderPromise, faulted, loopVars,
                    playVars, now >>

    /\ UNCHANGED wizOnly
\* an event handler is due at the current clock value
EventDue ==
    \/ audioPlaying /\ now = audioBuffer
    \/ playing # 0 /\ now = clipEndAt
    \/ playRejected

\* renderLoop, one iteration per clock value: draw videoToDraw if any, then
\* requestAnimationFrame(renderLoop)
RenderLoop ==
    /\ animationFrameId
    /\ lastDrawn.at # now
    /\ ~EventDue
    /\ lastDrawn' = [clip |-> VideoToDraw(videos, currentVideoIndex),
                     idx |-> currentVideoIndex, at |-> now]
    /\ animationFrameId' = TRUE
    /\ UNCHANGED << hcVars, videoUrls, loadVars, recVars, loopStarted, playVars,
                    audioPlaying, now >>

    /\ UNCHANGED wizOnly
\* RecorderOnError with an onerror that only logs: the promise is left pending
RecorderOnErrorNoReject ==
    /\ recorder = "recording"
    /\ recorder' = "inactive"
    /\ recorderEvents' = "data"
    /\ stoppedAt' = now
    /\ faulted' = TRUE
    /\ animationFrameId' = FALSE
    /\ audioCtx' = "closed"
    /\ audioPlaying' = FALSE
    /\ UNCHANGED << hcVars, videoUrls, loadStarted, audioBuffer, videos, probed,
                    mimeType, chunks, recorderPromise, loopStarted, lastDrawn, playVars, now >>
    /\ UNCHANGED wizOnly

\* the recorder faults while recording: it becomes inactive and fires error,
\* then dataavailable, then stop.  recorder.onerror: cancelAnimationFrame,
\* audioCtx.close() (which silences the narration source), reject.
RecorderOnError ==
    /\ recorder = "recording"
    /\ recorder' = "inactive"
    /\ recorderEvents' = "data"
    /\ stoppedAt' = now
    /\ faulted' = TRUE
    /\ animationFrameId' = FALSE
    /\ audioCtx' = "closed"
    /\ audioPlaying' = FALSE
    /\ recorderPromise' = (IF recorderPromise = "pending" THEN "rejectedFault"
                           ELSE recorderPromise)
    /\ UNCHANGED << hcVars, videoUrls, loadStarted, audioBuffer, videos, probed,
                    mimeType, chunks, loopStarted, lastDrawn, playVars, now >>

    /\ UNCHANGED wizOnly
\* recorder.ondataavailable for the one blob delivered when recording ends:
\* `if (e.data.size > 0) chunks.push(e.data)`
RecorderOnDataAvailable ==
    /\ recorderEvents = "data"
    /\ \E size \in {0, 1} : chunks' = (IF size > 0 THEN chunks + 1 ELSE chunks)
    /\ recorderEvents' = "stop"
    /\ UNCHANGED << hcVars, videoUrls, loadVars, recorder, recorderPromise, faulted,
                    stoppedAt, loopVars, playVars, audioPlaying, now >>

    /\ UNCHANGED wizOnly
\* RecorderOnStop without the `chunks.length === 0` test: it always resolves
RecorderOnStopAlwaysResolves ==
    /\ recorderEvents = "stop"
    /\ recorderEvents' = "none"
    /\ animationFrameId' = FALSE
    /\ audioCtx' = "closed"
    /\ audioPlaying' = FALSE
    /\ recorderPromise' = (IF recorderPromise # "pending" THEN recorderPromise ELSE "resolved")
    /\ UNCHANGED << hcVars, videoUrls, loadStarted, audioBuffer, videos, probed,
                    mimeType, recorder, chunks, faulted, stoppedAt, loopStarted, lastDrawn,
                    playVars, now >>

    /\ UNCHANGED wizOnly
\* recorder.onstop: cancelAnimationFrame, audioCtx.close(), then reject on
\* zero chunks and resolve otherwise (a settled promise stays as it is)
RecorderOnStop ==
    /\ recorderEvents = "stop"
    /\ recorderEvents' = "none"
    /\ animationFrameId' = FALSE
    /\ audioCtx' = "closed"
    /\ audioPlaying' = FALSE
    /\ recorderPromise' = (IF recorderPromise # "pending" THEN recorderPromise
                           ELSE IF chunks = 0 THEN "rejectedEmpty" ELSE "resolved")
    /\ UNCHANGED << hcVars, videoUrls, loadStarted, audioBuffer, videos, probed,
                    mimeType, recorder, chunks, faulted, stoppedAt, loopStarted, lastDrawn,
                    playVars, now >>

    /\ UNCHANGED wizOnly
\* handleCombine after `await combineVideosAndAudio(...)` resolved:
\* setFinalVideo(finalVideoData), then the await of generateCaptionAndHashtags
CombineResolved ==
    /\ pc = "recording"
    /\ recorderPromise = "resolved"
    /\ finalVideo' = [url |-> "blob", extension |-> Extension(mimeType)]
    /\ pc' = "captions"
    /\ UNCHANGED << exitPath, isLoading, error, captionData, videoUrls, loadVars, recVars,
                    loopVars, playVars, audioPlaying, now >>

    /\ UNCHANGED wizOnly
\* handleCombine's catch and finally after recorderPromise rejected
CombineRejected ==
    /\ pc = "recording"
    /\ recorderPromise \in {"rejectedEmpty", "rejectedFault"}
    /\ error' = (IF recorderPromise = "rejectedEmpty" THEN "emptyRecording"
                 ELSE "recorderFault")
    /\ exitPath' = (IF recorderPromise = "rejectedEmpty" THEN "empty" ELSE "fault")
    /\ isLoading' = FALSE
    /\ pc' = "done"
    /\ UNCHANGED << finalVideo, captionData, videoUrls, loadVars, recVars, loopVars,
                    playVars, audioPlaying, now >>

    /\ UNCHANGED wizOnly
\* generateCaptionAndHashtags returned (it never throws): setCaptionData, finally
CaptionsDone ==
    /\ pc = "captions"
    /\ captionData' = "captions"
    /\ isLoading' = FALSE
    /\ pc' = "done"
    /\ exitPath' = "success"
    /\ UNCHANGED << error, finalVideo, videoUrls, loadVars, recVars, loopVars, playVars,
                    audioPlaying, now >>

    /\ UNCHANGED wizOnly
\* the clock advances by one unit while the recorder records, once every
\* handler due at the current value has run and the frame of this unit is drawn
Tick ==
    /\ recorder = "recording"
    /\ ~EventDue
    /\ animationFrameId => lastDrawn.at = now
    /\ now <= MaxT
    /\ now' = now + 1
    /\ UNCHANGED << hcVars, videoUrls, loadVars, recVars, loopVars, playVars, audioPlaying >>

    /\ UNCHANGED wizOnly
NextComp ==
    \/ HandleCombineSkip
    \/ HandleCombineNoCanvas
    \/ HandleCombineStart
    \/ LoadFail
    \/ LoadOkUnsupported
    \/ LoadOkRecord
    \/ LoadOkTypeError
    \/ VideoOnEnded
    \/ PlayCatch
    \/ AudioOnEnded
    \/ RenderLoop
    \/ RecorderOnError
    \/ RecorderOnDataAvailable
    \/ RecorderOnStop
    \/ CombineResolved
    \/ CombineRejected
    \/ CaptionsDone
    \/ Tick

SpecComp == InitComp /\ [][NextComp]_vars

\* ------------------------------------------------------------------------
\* Properties of the compositor (checked under SpecComp)
\* ------------------------------------------------------------------------
\* every entry of the clip list handed to the compositor is a video
AllClipsPresent == \A i \in 1..Len(videoUrls) : IsVideo(videoUrls[i])

RECURSIVE SumDur(_, _)
\* d[1] + ... + d[k]
SumDur(d, k) == IF k = 0 THEN 0 ELSE d[k] + SumDur(d, k - 1)

\* the clip the timeline calls for at clock value t: the first k with
\* d[1]+...+d[k] > t, the last clip once t is at or past the sum
ExpectedClip(d, t) ==
    IF \E k \in 1..Len(d) : SumDur(d, k) > t
    THEN CHOOSE k \in 1..Len(d) : SumDur(d, k) > t /\ \A j \in 1..(k-1) : SumDur(d, j) <= t
    ELSE Len(d)

\* the step is the narration's ended handler
AudioEndedStep == audioPlaying /\ now = audioBuffer /\ ~audioPlaying'
\* the step is the recorder's fault
FaultStep == ~faulted /\ faulted'
\* the step is the catch handler of a rejected video.play()
PlayCatchStep == playRejected /\ ~playRejected'
\* the step takes the recorder out of "recording"
RecorderStops == recorder = "recording" /\ recorder' # "recording"

C3_RenderLoopAlwaysDraws ==
    AllClipsPresent =>
      /\ lastDrawn.at >= 0 =>
           /\ lastDrawn.clip # 0
           /\ lastDrawn.clip = (IF lastDrawn.idx < Len(videos) THEN lastDrawn.idx + 1
                                ELSE Len(videos))
      /\ (loopStarted /\ recorder = "recording") =>
           /\ animationFrameId
           /\ now > 0 => lastDrawn.at >= now - 1

\* the index is past the end, the recorder records, the last clip was drawn
C3_Witness ==
    /\ AllClipsPresent
    /\ recorder = "recording"
    /\ lastDrawn.idx = NumClips
    /\ lastDrawn.clip = NumClips
    /\ lastDrawn.at = now
    /\ animationFrameId

\* C4: over a clip list without missing entries, the frame drawn at clock
\* value t shows the clip the timeline calls for at t; for clips of 2, 3 and
\* 4 units that is clip 1 during [1,2), clip 2 during [4,5), clip 3 during
\* [5,6), and clip 3 (held) from 9 on
C4_FrameShowsExpectedClip ==
    (AllClipsPresent /\ lastDrawn.at >= 0) =>
      /\ lastDrawn.clip = ExpectedClip(videos, lastDrawn.at)
      /\ videos = << 2, 3, 4 >> =>
           /\ lastDrawn.at = 1 => lastDrawn.clip = 1
           /\ lastDrawn.at = 4 => lastDrawn.clip = 2
           /\ lastDrawn.at = 5 => lastDrawn.clip = 3
           /\ lastDrawn.at >= 9 => lastDrawn.clip = 3 /\ lastDrawn.idx = 3

\* clips of 2, 3, 4 units under a 12 unit narration: clip 3 is held at 11
C4_Witness ==
    /\ videos = << 2, 3, 4 >>
    /\ audioBuffer = 12
    /\ lastDrawn = [clip |-> 3, idx |-> 3, at |-> 11]
    /\ recorder = "recording"

\* C7: after a clip failed to load the attempt has failed: no recorder was
\* created, the final video is empty and the final stage shows the load error
C7_ClipLoadFailureAborts ==
    exitPath = "clipLoadFail" =>
      /\ pc = "done"
      /\ recorder = "none"
      /\ recorderPromise = "none"
      /\ finalVideo.url = Null
      /\ captionData = Null
      /\ error = "videoLoadFailed"
      /\ ~isLoading

C7_Witness == exitPath = "clipLoadFail" /\ loadStarted /\ pc = "done"

\* C8: once the recorder has stopped without a fault and with zero chunks the
\* recorder promise is rejected, nothing is stored as the final video, and the
\* attempt ends with an error
C8_EmptyRecordingFails ==
    (stoppedAt >= 0 /\ recorderEvents = "none" /\ chunks = 0 /\ ~faulted) =>
      /\ recorderPromise = "rejectedEmpty"
      /\ finalVideo.url = Null
      /\ pc # "captions"
      /\ pc = "done" => /\ error = (IF exitPath = "typeError" THEN "typeError"
                                    ELSE "emptyRecording")
                        /\ exitPath \in {"typeError", "empty"}

C8_Witness ==
    /\ exitPath = "empty"
    /\ chunks = 0
    /\ ~faulted
    /\ stoppedAt = audioBuffer
    /\ error = "emptyRecording"

\* C9 as stated: on each exit path the claim lists, the audio context is
\* closed, the recorder is not recording and no render callback is scheduled
C9_ResourcesReleased ==
    exitPath \in {"success", "unsupported", "clipLoadFail", "audioDecodeFail", "fault", "empty"} =>
      /\ audioCtx # "open"
      /\ recorder # "recording"
      /\ ~animationFrameId

C11_RecorderFaultAborts ==
    /\ [](faulted =>
            /\ ~animationFrameId
            /\ audioCtx = "closed"
            /\ recorderPromise = "rejectedFault"
            /\ finalVideo.url = Null
            /\ captionData = Null
            /\ pc # "captions"
            /\ pc = "done" =>
                 /\ ~isLoading
                 /\ error = (IF exitPath = "typeError" THEN "typeError" ELSE "recorderFault"))
    /\ [][recorderPromise = "rejectedFault" => recorderPromise' = "rejectedFault"]_vars

\* the fault was followed by a non-empty dataavailable and by the stop event,
\* and handleCombine ended with the fatal error
C11_Witness ==
    /\ faulted
    /\ chunks > 0
    /\ recorderEvents = "none"
    /\ pc = "done"
    /\ exitPath = "fault"
    /\ error = "recorderFault"

\* ------------------------------------------------------------------------
\* The wizard (App and the step components)
\* ------------------------------------------------------------------------
\* most gateway requests pending at once, and most unsettled handleCombine calls
MaxInFlight == 2
MaxCompositions == 2

\* [...a]: the array iterator reads a hole as undefined
Spread(a) == [ i \in 1..Len(a) |-> IF a[i] = Hole THEN Undef ELSE a[i] ]

\* `b = [...a]; b[i] = v` for a 0-based i: writing past the end leaves holes
SetIndex(a, i, v) ==
    IF i < Len(a) THEN [ Spread(a) EXCEPT ![i + 1] = v ]
    ELSE Spread(a) \o [ j \in 1..(i - Len(a)) |-> Hole ] \o << v >>

\* a.some(v => !v): Array.prototype.some does not visit holes
SomeFalsy(a) == \E i \in 1..Len(a) : a[i] # Hole /\ a[i] = Undef

\* imageUrlToImageFile(a[i]) returns (it throws a TypeError on undefined)
Convertible(a, i) == i < Len(a) /\ IsImage(a[i + 1])

RECURSIVE RenderedStep(_, _, _, _, _)
\* renderCurrentStep: the stage whose component is rendered, after the
\* setCurrentStep redirects of the missing-artifact guards
RenderedStep(step, prod, mod, ads, stu) ==
    IF step = 2 /\ ~prod.image THEN 1
    ELSE IF step = 3 /\ ~mod.image THEN RenderedStep(2, prod, mod, ads, stu)
    ELSE IF step = 4 /\ (~mod.image \/ ~prod.image \/ ~ads.script)
         THEN RenderedStep(3, prod, mod, ads, stu)
    ELSE IF step = 5 /\ (Len(stu.adVideos) < 3 \/ ~ads.audioUrl)
         THEN RenderedStep(4, prod, mod, ads, stu)
    ELSE step

\* a pending request: the arguments its closure captured, and whether the
\* component that issued it is still mounted
Req(kind, index, images) ==
    [kind |-> kind, index |-> index, images |-> images, generated |-> << >>, live |-> TRUE]

\* the component that owned these requests or compositions was unmounted: its
\* state setters no longer have any effect
Stale(S) == { [x EXCEPT !.live = FALSE] : x \in S }

isBusy ==
    \/ local.isLoading # Null
    \/ local.regeneratingImageIndex # NoIndex
    \/ local.regeneratingVideoIndex # NoIndex

\* React re-renders after the state updates of a handler that does not
\* navigate: the step component stays mounted unless a guard redirects
AfterUpdate(newLocal, newRequests) ==
    LET to == RenderedStep(currentStep, product', model', adsCopy', studio')
    IN  /\ currentStep' = to
        /\ IF to = currentStep
           THEN /\ local' = newLocal
                /\ requests' = newRequests
                /\ UNCHANGED << compositions, isLoading, error, captionData >>
           ELSE /\ local' = FreshLocal
                /\ requests' = Stale(newRequests)
                /\ compositions' = Stale(compositions)
                /\ isLoading' = FALSE
                /\ error' = Null
                /\ captionData' = Null

\* MountStep5 with a handleCombine that lacks its `finalVideo.url` guard: every
\* mount composes again
MountStep5NoGuard ==
    /\ captionData' = Null
    /\ error' = Null
    /\ isLoading' = TRUE
    /\ finalVideo' = NoVideo
    /\ compositions' = Stale(compositions) \cup
         { [clips |-> studio.adVideos, audio |-> adsCopy.audioUrl,
            stage |-> "combining", live |-> TRUE] }

\* Step5Finishing mounts: its mount effect calls handleCombine once, with the
\* adVideos and audioUrl props of that render
MountStep5 ==
    /\ captionData' = Null
    /\ error' = Null
    /\ IF finalVideo.url # Null
       THEN UNCHANGED << finalVideo, compositions >> /\ isLoading' = FALSE
       ELSE /\ isLoading' = TRUE
            /\ finalVideo' = NoVideo
            /\ compositions' = Stale(compositions) \cup
                 { [clips |-> studio.adVideos, audio |-> adsCopy.audioUrl,
                    stage |-> "combining", live |-> TRUE] }

\* nextStep / prevStep: the current step component unmounts and the component
\* of the rendered stage mounts with fresh state
Navigate(target) ==
    LET to == RenderedStep(target, product, model, adsCopy, studio)
    IN  /\ currentStep' = to
        /\ local' = FreshLocal
        /\ requests' = Stale(requests)
        /\ IF to = 5
           THEN MountStep5
           ELSE /\ compositions' = Stale(compositions)
                /\ isLoading' = FALSE
                /\ error' = Null
                /\ captionData' = Null
                /\ UNCHANGED finalVideo
        /\ UNCHANGED << product, model, adsCopy, studio, videoUrls, compOnly >>

\* a gateway promise settles in a component that may be gone: its catch and
\* finally only touch the state of a component that is still mounted
Settled(r, fields) == IF r.live THEN fields ELSE local

\* no composition attempt is being followed step by step
CompositorIdle ==
    /\ pc = "mount"
    /\ exitPath = "none"
    /\ audioCtx = "none"
    /\ loadStarted = FALSE
    /\ audioBuffer = 0
    /\ videos = << >>
    /\ probed = FALSE
    /\ mimeType = Null
    /\ recorder = "none"
    /\ chunks = 0
    /\ recorderPromise = "none"
    /\ recorderEvents = "none"
    /\ faulted = FALSE
    /\ stoppedAt = -1
    /\ animationFrameId = FALSE
    /\ loopStarted = FALSE
    /\ lastDrawn = NeverDrawn
    /\ currentVideoIndex = 0
    /\ playing = 0
    /\ clipEndAt = -1
    /\ playRejected = FALSE
    /\ playFailed = FALSE
    /\ audioPlaying = FALSE
    /\ now = 0

\* the useState initial values of App and of its first step component
InitApp ==
    /\ currentStep = 1
    /\ product = [image |-> FALSE, name |-> FALSE]
    /\ model = [image |-> FALSE]
    /\ adsCopy = [script |-> FALSE, audioUrl |-> FALSE]
    /\ studio = [adImages |-> << >>, adVideos |-> << >>]
    /\ finalVideo = NoVideo
    /\ local = FreshLocal
    /\ requests = {}
    /\ compositions = {}
    /\ isLoading = FALSE
    /\ error = Null
    /\ captionData = Null
    /\ videoUrls = << >>
    /\ CompositorIdle
    /\ gateway = NoCall

\* the state in which Step4Studio mounts for the first time: Step3AdsCopy's
\* handleNext ran with a product, a model, a script and a narration, nothing
\* of the studio exists yet (SpecIntake reaches this state from InitApp)
InitStudio ==
    /\ currentStep = 4
    /\ product = [image |-> TRUE, name |-> TRUE]
    /\ model = [image |-> TRUE]
    /\ adsCopy = [script |-> TRUE, audioUrl |-> TRUE]
    /\ studio = [adImages |-> << >>, adVideos |-> << >>]
    /\ finalVideo = NoVideo
    /\ local = FreshLocal
    /\ requests = {}
    /\ compositions = {}
    /\ isLoading = FALSE
    /\ error = Null
    /\ captionData = Null
    /\ videoUrls = << >>
    /\ CompositorIdle
    /\ gateway = NoCall

\* ---- stage 1 ----
\* Step1Product.handleImageUpload
Step1UploadImage ==
    /\ currentStep = 1
    /\ product' = [product EXCEPT !.image = TRUE]
    /\ UNCHANGED << currentStep, model, adsCopy, studio, local, requests, compositions, compVars >>

\* the product name input's onChange; b: the new value is non-blank
Step1EditName ==
    /\ currentStep = 1
    /\ \E b \in BOOLEAN : product' = [product EXCEPT !.name = b]
    /\ UNCHANGED << currentStep, model, adsCopy, studio, local, requests, compositions, compVars >>

\* setError(message) in a handleNext that found an artifact missing: the
\* component stays mounted and shows the message
NextRefused ==
    /\ local' = [local EXCEPT !.error = "missing"]
    /\ UNCHANGED << currentStep, product, model, adsCopy, studio, requests, compositions, compVars >>

\* Step1Product.handleNext
Step1Next ==
    /\ currentStep = 1
    /\ IF product.image /\ product.name THEN Navigate(2) ELSE NextRefused

\* ---- stage 2 ----
\* Step2Model.handleGenerateAIModel up to its await
Step2GenerateModel ==
    /\ currentStep = 2
    /\ local.isLoading = Null
    /\ Cardinality(requests) < MaxInFlight
    /\ local' = [local EXCEPT !.isLoading = "model", !.error = Null]
    /\ requests' = requests \cup { Req("model", NoIndex, << >>) }
    /\ UNCHANGED << currentStep, product, model, adsCopy, studio, compositions, compVars >>

\* generateModelImage settles: setModel on success, setError on failure, finally
ModelGenerated ==
    \E r \in requests, ok \in BOOLEAN :
      /\ r.kind = "model"
      /\ model' = (IF ok THEN [model EXCEPT !.image = TRUE] ELSE model)
      /\ UNCHANGED << product, adsCopy, studio >>
      /\ AfterUpdate(Settled(r, [local EXCEPT !.isLoading = Null,
                                              !.error = IF ok THEN local.error ELSE "other"]),
                     requests \ {r})
      /\ UNCHANGED << finalVideo, videoUrls, compOnly >>

\* Step2Model.handleManualUpload
Step2ManualUpload ==
    /\ currentStep = 2
    /\ model' = [model EXCEPT !.image = TRUE]
    /\ UNCHANGED << currentStep, product, adsCopy, studio, local, requests, compositions, compVars >>

\* Step2Model.handleNext
Step2Next ==
    /\ currentStep = 2
    /\ IF model.image THEN Navigate(3) ELSE NextRefused

Step2Back ==
    /\ currentStep = 2
    /\ Navigate(1)

\* ---- stage 3 ----
\* Step3AdsCopy.handleGenerateScript up to its await
Step3GenerateScript ==
    /\ currentStep = 3
    /\ local.isLoading = Null
    /\ Cardinality(requests) < MaxInFlight
    /\ adsCopy' = [adsCopy EXCEPT !.script = FALSE, !.audioUrl = FALSE]
    /\ UNCHANGED << product, model, studio >>
    /\ AfterUpdate([local EXCEPT !.isLoading = "script", !.error = Null],
                   requests \cup { Req("script", NoIndex, << >>) })
    /\ UNCHANGED << finalVideo, videoUrls, compOnly >>

\* generateAdsCopy settles; text: response.text is non-empty
ScriptGenerated ==
    \E r \in requests, ok \in BOOLEAN, text \in BOOLEAN :
      /\ r.kind = "script"
      /\ adsCopy' = (IF ok THEN [adsCopy EXCEPT !.script = text] ELSE adsCopy)
      /\ UNCHANGED << product, model, studio >>
      /\ AfterUpdate(Settled(r, [local EXCEPT !.isLoading = Null,
                                              !.error = IF ok THEN local.error ELSE "other"]),
                     requests \ {r})
      /\ UNCHANGED << finalVideo, videoUrls, compOnly >>

\* the script textarea's onChange (rendered while the script is non-empty);
\* b: the edited text is non-empty
Step3EditScript ==
    /\ currentStep = 3
    /\ adsCopy.script
    /\ \E b \in BOOLEAN : adsCopy' = [adsCopy EXCEPT !.script = b]
    /\ UNCHANGED << product, model, studio >>
    /\ AfterUpdate(local, requests)
    /\ UNCHANGED << finalVideo, videoUrls, compOnly >>

\* Step3AdsCopy.handleGenerateAudio up to its await
Step3GenerateAudio ==
    /\ currentStep = 3
    /\ adsCopy.script
    /\ local.isLoading = Null
    /\ Cardinality(requests) < MaxInFlight
    /\ adsCopy' = [adsCopy EXCEPT !.audioUrl = FALSE]
    /\ UNCHANGED << product, model, studio >>
    /\ AfterUpdate([local EXCEPT !.isLoading = "audio", !.error = Null],
                   requests \cup { Req("audio", NoIndex, << >>) })
    /\ UNCHANGED << finalVideo, videoUrls, compOnly >>

\* generateSpeech settles
AudioGenerated ==
    \E r \in requests, ok \in BOOLEAN :
      /\ r.kind = "audio"
      /\ adsCopy' = (IF ok THEN [adsCopy EXCEPT !.audioUrl = TRUE] ELSE adsCopy)
      /\ UNCHANGED << product, model, studio >>
      /\ AfterUpdate(Settled(r, [local EXCEPT !.isLoading = Null,
                                              !.error = IF ok THEN local.error ELSE "other"]),
                     requests \ {r})
      /\ UNCHANGED << finalVideo, videoUrls, compOnly >>

\* Step3AdsCopy.handleNext behind its `disabled={!adsCopy.audioUrl}` button
Step3Next ==
    /\ currentStep = 3
    /\ adsCopy.audioUrl
    /\ IF adsCopy.script /\ adsCopy.audioUrl THEN Navigate(4) ELSE NextRefused

Step3Back ==
    /\ currentStep = 3
    /\ Navigate(2)

\* ---- stage 4 ----
\* Step4Studio.handleGenerateImages up to its await
Step4GenerateImages ==
    /\ currentStep = 4
    /\ ~isBusy
    /\ Cardinality(requests) < MaxInFlight
    /\ studio' = [adImages |-> << >>, adVideos |-> << >>]
    /\ UNCHANGED << product, model, adsCopy >>
    /\ AfterUpdate([local EXCEPT !.isLoading = "images", !.error = Null],
                   requests \cup { Req("images", NoIndex, << >>) })
    /\ UNCHANGED << finalVideo, videoUrls, compOnly >>

\* generateAdImages settles: three images in prompt order, or a failure
ImagesGenerated ==
    \E r \in requests, ok \in BOOLEAN :
      /\ r.kind = "images"
      /\ studio' = (IF ok
                    THEN [studio EXCEPT !.adImages = [ i \in 1..NumClips |->
                                                         Image(i - 1) ]]
                    ELSE studio)
      /\ UNCHANGED << product, model, adsCopy >>
      /\ AfterUpdate(Settled(r, [local EXCEPT !.isLoading = Null,
                                              !.error = IF ok THEN local.error ELSE "other"]),
                     requests \ {r})
      /\ UNCHANGED << finalVideo, videoUrls, compOnly >>

\* Step4Studio.handleRegenerateImage(i) up to its await; the button belongs
\* to an image that adImages.map rendered (map does not visit holes)
Step4RegenerateImage ==
    /\ currentStep = 4
    /\ ~isBusy
    /\ Cardinality(requests) < MaxInFlight
    /\ \E i \in 0..(Len(studio.adImages) - 1) :
         /\ studio.adImages[i + 1] # Hole
         /\ local' = [local EXCEPT !.regeneratingImageIndex = i, !.error = Null]
         /\ requests' = requests \cup { Req("regenImage", i, << >>) }
    /\ UNCHANGED << currentStep, product, model, adsCopy, studio, compositions, compVars >>

\* regenerateAdImage settles: the new image replaces entry indexToRegen and
\* the videos are reset
ImageRegenerated ==
    \E r \in requests, ok \in BOOLEAN :
      /\ r.kind = "regenImage"
      /\ studio' = (IF ok
                    THEN [adImages |-> SetIndex(studio.adImages, r.index,
                                                Image(r.index)),
                          adVideos |-> << >>]
                    ELSE studio)
      /\ UNCHANGED << product, model, adsCopy >>
      /\ AfterUpdate(Settled(r, [local EXCEPT !.regeneratingImageIndex = NoIndex,
                                              !.error = IF ok THEN local.error ELSE "other"]),
                     requests \ {r})
      /\ UNCHANGED << finalVideo, videoUrls, compOnly >>

\* handleStartVideoGeneration / handleGenerateVideos up to the first await:
\* the list is emptied, then imageUrlToImageFile(studio.adImages[0]) either
\* throws (catch, finally) or the first generateVideo call is issued
Step4GenerateVideos ==
    /\ currentStep = 4
    /\ ~isBusy
    /\ Len(studio.adImages) # 0
    /\ Cardinality(requests) < MaxInFlight
    /\ studio' = [studio EXCEPT !.adVideos = << >>]
    /\ UNCHANGED << product, model, adsCopy >>
    /\ IF Convertible(studio.adImages, 0)
       THEN AfterUpdate([local EXCEPT !.isLoading = "videos", !.error = Null],
                        requests \cup { Req("videos", NoIndex, studio.adImages) })
       ELSE AfterUpdate([local EXCEPT !.isLoading = Null, !.error = "other"], requests)
    /\ UNCHANGED << finalVideo, videoUrls, compOnly >>

\* the video list handleGenerateVideos publishes after the video for image
\* number Len(generated) arrived: `generatedVideos.push(videoUrl);
\* setStudio(s => ({ ...s, adVideos: [...generatedVideos] }))`
PushGenerated(generated, video) == Append(generated, video)

\* the generateVideo call of a handleGenerateVideos loop settles.  On success
\* the list of this run replaces studio.adVideos and the loop goes on with the
\* next image of its closure (or ends); a failure, or an image that cannot be
\* converted, ends the run in catch and finally.  err: the failure carries the
\* resource-exhaustion signature or not.
VideoGenerated ==
    \E r \in requests, ok \in BOOLEAN, err \in {"quota", "other"} :
      /\ r.kind = "videos"
      /\ LET i == Len(r.generated)
             gen == PushGenerated(r.generated, VideoOf(r.images[i + 1]))
             more == ok /\ i + 1 < Len(r.images) /\ Convertible(r.images, i + 1)
             threw == ok /\ i + 1 < Len(r.images) /\ ~Convertible(r.images, i + 1)
         IN  /\ studio' = (IF ok THEN [studio EXCEPT !.adVideos = gen] ELSE studio)
             /\ UNCHANGED << product, model, adsCopy >>
             /\ AfterUpdate(
                  IF more THEN local
                  ELSE Settled(r, [local EXCEPT !.isLoading = Null,
                                                !.error = IF ~ok THEN err
                                                          ELSE IF threw THEN "other"
                                                          ELSE local.error]),
                  IF more THEN (requests \ {r}) \cup { [r EXCEPT !.generated = gen] }
                  ELSE requests \ {r})
      /\ UNCHANGED << finalVideo, videoUrls, compOnly >>

\* Step4Studio.handleRegenerateVideo(i) up to its await; the button belongs
\* to a video that adVideos.map rendered.  imageUrlToImageFile throws on a
\* missing image (catch, finally).
Step4RegenerateVideo ==
    /\ currentStep = 4
    /\ ~isBusy
    /\ Cardinality(requests) < MaxInFlight
    /\ \E i \in 0..(Len(studio.adVideos) - 1) :
         /\ studio.adVideos[i + 1] # Hole
         /\ IF Convertible(studio.adImages, i)
            THEN /\ local' = [local EXCEPT !.regeneratingVideoIndex = i, !.error = Null]
                 /\ requests' = requests \cup { Req("regenVideo", i, studio.adImages) }
            ELSE /\ local' = [local EXCEPT !.regeneratingVideoIndex = NoIndex,
                                           !.error = "other"]
                 /\ requests' = requests
    /\ UNCHANGED << currentStep, product, model, adsCopy, studio, compositions, compVars >>

\* handleRegenerateVideo pushing the new video instead of assigning it to its index
ReplaceVideoAppended(adVideos, indexToRegen, video) == Append(Spread(adVideos), video)

\* the video list handleRegenerateVideo publishes: `newAdVideos =
\* [...s.adVideos]; newAdVideos[indexToRegen] = videoUrl`
ReplaceVideo(adVideos, indexToRegen, video) == SetIndex(adVideos, indexToRegen, video)

\* the generateVideo call of handleRegenerateVideo settles
VideoRegenerated ==
    \E r \in requests, ok \in BOOLEAN, err \in {"quota", "other"} :
      /\ r.kind = "regenVideo"
      /\ studio' = (IF ok
                    THEN [studio EXCEPT !.adVideos =
                            ReplaceVideo(studio.adVideos, r.index, VideoOf(r.images[r.index + 1]))]
                    ELSE studio)
      /\ UNCHANGED << product, model, adsCopy >>
      /\ AfterUpdate(Settled(r, [local EXCEPT !.regeneratingVideoIndex = NoIndex,
                                              !.error = IF ok THEN local.error ELSE err]),
                     requests \ {r})
      /\ UNCHANGED << finalVideo, videoUrls, compOnly >>

\* the Next button of stage 4 is enabled:
\* `disabled={studio.adVideos.length < 3 || studio.adVideos.some(v => !v)}`
Step4NextEnabled(adVideos) == ~(Len(adVideos) < 3 \/ SomeFalsy(adVideos))

\* Step4Studio.handleNext behind its button: nextStep, stage 5 renders and
\* Step5Finishing mounts
Step4Next ==
    /\ currentStep = 4
    /\ Step4NextEnabled(studio.adVideos)
    /\ ~(Len(studio.adVideos) < 3)
    /\ finalVideo.url = Null => Cardinality(compositions) < MaxCompositions
    /\ Navigate(5)

Step4Back ==
    /\ currentStep = 4
    /\ Navigate(3)

\* ---- stage 5 ----
\* combineVideosAndAudio resolved in handleCombine: setFinalVideo (a setter of
\* App, effective whether or not Step5Finishing is still mounted), then the
\* await of generateCaptionAndHashtags
CompositionResolved ==
    \E c \in compositions, ext \in {"mp4", "webm"} :
      /\ c.stage = "combining"
      /\ finalVideo' = [url |-> "blob", extension |-> ext]
      /\ compositions' = (compositions \ {c}) \cup { [c EXCEPT !.stage = "captions"] }
      /\ UNCHANGED << currentStep, product, model, adsCopy, studio, local, requests,
                      isLoading, error, captionData, videoUrls, compOnly >>

\* generateCaptionAndHashtags returned in handleCombine: setCaptionData, finally
CompositionCaptioned ==
    \E c \in compositions :
      /\ c.stage = "captions"
      /\ compositions' = compositions \ {c}
      /\ captionData' = (IF c.live THEN "captions" ELSE captionData)
      /\ isLoading' = (IF c.live THEN FALSE ELSE isLoading)
      /\ UNCHANGED << currentStep, product, model, adsCopy, studio, local, requests,
                      finalVideo, error, videoUrls, compOnly >>

\* combineVideosAndAudio rejected in handleCombine: catch, finally
CompositionRejected ==
    \E c \in compositions :
      /\ c.stage = "combining"
      /\ compositions' = compositions \ {c}
      /\ error' = (IF c.live THEN "combineFailed" ELSE error)
      /\ isLoading' = (IF c.live THEN FALSE ELSE isLoading)
      /\ UNCHANGED << currentStep, product, model, adsCopy, studio, local, requests,
                      finalVideo, captionData, videoUrls, compOnly >>

\* Step5Finishing.handleDownload: the files whose download links it clicks
handleDownload ==
    IF finalVideo.url = Null \/ captionData = Null THEN {}
    ELSE { [name |-> "vidabot-caption", extension |-> "txt"],
           [name |-> "vidabot-ad", extension |-> finalVideo.extension] }

\* a Back button whose handler goes back two stages
Step5BackTwo ==
    /\ currentStep = 5
    /\ Navigate(3)

Step5Back ==
    /\ currentStep = 5
    /\ Navigate(4)

\* resetState without its setFinalVideo(initialFinalVideoState)
Step5ResetKeepsVideo ==
    /\ currentStep = 5
    /\ product' = [image |-> FALSE, name |-> FALSE]
    /\ model' = [image |-> FALSE]
    /\ adsCopy' = [script |-> FALSE, audioUrl |-> FALSE]
    /\ studio' = [adImages |-> << >>, adVideos |-> << >>]
    /\ currentStep' = 1
    /\ local' = FreshLocal
    /\ requests' = Stale(requests)
    /\ compositions' = Stale(compositions)
    /\ isLoading' = FALSE
    /\ error' = Null
    /\ captionData' = Null
    /\ UNCHANGED << finalVideo, videoUrls, compOnly >>

\* resetState, from the "Buat Video Lagi" button of stage 5
Step5Reset ==
    /\ currentStep = 5
    /\ product' = [image |-> FALSE, name |-> FALSE]
    /\ model' = [image |-> FALSE]
    /\ adsCopy' = [script |-> FALSE, audioUrl |-> FALSE]
    /\ studio' = [adImages |-> << >>, adVideos |-> << >>]
    /\ finalVideo' = NoVideo
    /\ currentStep' = 1
    /\ local' = FreshLocal
    /\ requests' = Stale(requests)
    /\ compositions' = Stale(compositions)
    /\ isLoading' = FALSE
    /\ error' = Null
    /\ captionData' = Null
    /\ UNCHANGED << videoUrls, compOnly >>

\* stages 1 to 3: the product, the model, the script and the narration
NextIntake ==
    \/ Step1UploadImage
    \/ Step1EditName
    \/ Step2GenerateModel
    \/ ModelGenerated
    \/ Step2ManualUpload
    \/ Step3GenerateScript
    \/ ScriptGenerated
    \/ Step3EditScript
    \/ Step3GenerateAudio
    \/ AudioGenerated
    \/ Step1Next
    \/ Step2Next
    \/ Step2Back
    \/ Step3Next
    \/ Step3Back
    \/ Step4Back

SpecIntake == InitApp /\ [][NextIntake]_vars

\* stages 4 and 5 and the navigation around them: the scene images, the video
\* list, the requests in flight and the compositions handleCombine started
NextStudio ==
    \/ Step4GenerateImages
    \/ ImagesGenerated
    \/ Step4RegenerateImage
    \/ ImageRegenerated
    \/ Step4GenerateVideos
    \/ VideoGenerated
    \/ Step4RegenerateVideo
    \/ VideoRegenerated
    \/ CompositionResolved
    \/ CompositionCaptioned
    \/ CompositionRejected
    \/ Step1Next
    \/ Step2Next
    \/ Step2Back
    \/ Step3Next
    \/ Step3Back
    \/ Step4Next
    \/ Step4Back
    \/ Step5Back
    \/ Step5Reset

SpecStudio == InitStudio /\ [][NextStudio]_vars

\* stages 3 to 5 and all navigation: script and narration may be regenerated
\* after a studio was built, and their requests may settle on any stage
NextScripted ==
    \/ Step3GenerateScript
    \/ ScriptGenerated
    \/ Step3EditScript
    \/ Step3GenerateAudio
    \/ AudioGenerated
    \/ Step4GenerateImages
    \/ ImagesGenerated
    \/ Step4RegenerateImage
    \/ ImageRegenerated
    \/ Step4GenerateVideos
    \/ VideoGenerated
    \/ Step4RegenerateVideo
    \/ VideoRegenerated
    \/ CompositionResolved
    \/ CompositionCaptioned
    \/ CompositionRejected
    \/ Step1Next
    \/ Step2Next
    \/ Step2Back
    \/ Step3Next
    \/ Step3Back
    \/ Step4Next
    \/ Step4Back
    \/ Step5Back
    \/ Step5Reset

SpecScripted == InitStudio /\ [][NextScripted]_vars

\* ---- stage 3 with the narration voice ----
\* In this specification adsCopy also has the field voiceGender, and the
\* history field selected: the value last chosen in the voice select, Null
\* while the user has chosen none.
Genders == { "male", "female" }

\* Step3AdsCopy has just mounted for the first time: its effect has called
\* determineModelGender(modelImage), nothing else exists yet
InitVoice ==
    /\ currentStep = 3
    /\ product = [image |-> TRUE, name |-> TRUE]
    /\ model = [image |-> TRUE]
    /\ adsCopy = [script |-> FALSE, audioUrl |-> FALSE, voiceGender |-> "female",
                  selected |-> Null]
    /\ studio = [adImages |-> << >>, adVideos |-> << >>]
    /\ finalVideo = NoVideo
    /\ local = FreshLocal
    /\ requests = { Req("gender", NoIndex, << >>) }
    /\ compositions = {}
    /\ isLoading = FALSE
    /\ error = Null
    /\ captionData = Null
    /\ videoUrls = << >>
    /\ CompositorIdle
    /\ gateway = NoCall

\* Step2Model.handleNext with a model image: Step3AdsCopy mounts and its
\* effect calls determineModelGender(modelImage) again
Step2NextDetecting ==
    /\ currentStep = 2
    /\ product.image /\ model.image
    /\ currentStep' = 3
    /\ local' = FreshLocal
    /\ requests' = Stale(requests) \cup { Req("gender", NoIndex, << >>) }
    /\ UNCHANGED << product, model, adsCopy, studio, compositions, compVars >>

\* the `.then` of the effect: determineModelGender resolved (it never
\* rejects) and setAdsCopy, a setter of App, stores the detected gender
GenderDetected ==
    \E r \in requests, gender \in Genders :
      /\ r.kind = "gender"
      /\ adsCopy' = [adsCopy EXCEPT !.voiceGender = gender]
      /\ requests' = requests \ {r}
      /\ UNCHANGED << currentStep, product, model, studio, local, compositions, compVars >>

\* the voice select's onChange (rendered while the script is non-empty)
Step3SelectGender ==
    /\ currentStep = 3
    /\ adsCopy.script
    /\ \E gender \in Genders \ { adsCopy.voiceGender } :
         adsCopy' = [adsCopy EXCEPT !.voiceGender = gender, !.selected = gender]
    /\ UNCHANGED << currentStep, product, model, studio, local, requests, compositions,
                    compVars >>

NextVoice ==
    \/ GenderDetected
    \/ Step3SelectGender
    \/ Step3GenerateScript
    \/ ScriptGenerated
    \/ Step3EditScript
    \/ Step3GenerateAudio
    \/ AudioGenerated
    \/ Step3Back
    \/ Step2NextDetecting

SpecVoice == InitVoice /\ [][NextVoice]_vars

\* ------------------------------------------------------------------------
\* The gateway (services/geminiService.ts), one call at a time
\* ------------------------------------------------------------------------
\* longest provider answer, in characters
MaxText == 6

\* the characters provider answers are made of
Chars == { "m", "a", "l", "e", "f", "M", " " }

Texts == UNION { [1..n -> Chars] : n \in 0..MaxText }

IsSpace(c) == c = " "

\* String.prototype.trim that only strips the front
TrimStart(s) ==
    LET solid == { i \in 1..Len(s) : ~IsSpace(s[i]) }
    IN  IF solid = {} THEN << >>
        ELSE SubSeq(s, CHOOSE i \in solid : \A j \in solid : i <= j, Len(s))

\* String.prototype.trim
Trim(s) ==
    LET solid == { i \in 1..Len(s) : ~IsSpace(s[i]) }
    IN  IF solid = {} THEN << >>
        ELSE SubSeq(s, CHOOSE i \in solid : \A j \in solid : i <= j,
                       CHOOSE i \in solid : \A j \in solid : i >= j)

\* String.prototype.toLowerCase
ToLowerCase(s) == [ i \in 1..Len(s) |-> IF s[i] = "M" THEN "m" ELSE s[i] ]

\* the wizard is idle apart from the gateway call that is followed
AppIdle ==
    /\ finalVideo = NoVideo
    /\ requests = {}
    /\ compositions = {}
    /\ isLoading = FALSE
    /\ error = Null
    /\ captionData = Null
    /\ videoUrls = << >>
    /\ CompositorIdle

\* ---- determineModelGender ----
\* what ai.models.generateContent does: it rejects, or resolves with a
\* response whose text is a string or is undefined
GenderResponses ==
    { [kind |-> "rejects", text |-> << >>], [kind |-> "noText", text |-> << >>] }
      \cup { [kind |-> "text", text |-> t] : t \in Texts }

\* Step3AdsCopy mounted with a model image: its effect calls
\* determineModelGender(modelImage)
InitGender ==
    /\ currentStep = 3
    /\ product = [image |-> TRUE, name |-> TRUE]
    /\ model = [image |-> TRUE]
    /\ adsCopy = [script |-> FALSE, audioUrl |-> FALSE]
    /\ studio = [adImages |-> << >>, adVideos |-> << >>]
    /\ local = FreshLocal
    /\ AppIdle
    /\ gateway \in { [fn |-> "determineModelGender", pc |-> "await", response |-> r,
                       outcome |-> "pending", result |-> Null] : r \in GenderResponses }

\* the generateContent promise settles
GenderResponded ==
    /\ gateway.fn = "determineModelGender"
    /\ gateway.pc = "await"
    /\ gateway' = [gateway EXCEPT !.pc = IF gateway.response.kind = "rejects"
                                         THEN "catch" ELSE "classify"]
    /\ UNCHANGED << appVars, mediaVars >>

\* `response.text.trim().toLowerCase()` (a TypeError when text is undefined),
\* the comparison with 'male' and the two returns
GenderClassified ==
    /\ gateway.fn = "determineModelGender"
    /\ gateway.pc = "classify"
    /\ gateway' =
         IF gateway.response.kind = "noText"
         THEN [gateway EXCEPT !.pc = "catch"]
         ELSE [gateway EXCEPT !.pc = "done", !.outcome = "returned",
                 !.result = IF ToLowerCase(Trim(gateway.response.text))
                                 = << "m", "a", "l", "e" >>
                            THEN "male" ELSE "female"]
    /\ UNCHANGED << appVars, mediaVars >>

\* the catch block: `return 'female'`
GenderCaught ==
    /\ gateway.fn = "determineModelGender"
    /\ gateway.pc = "catch"
    /\ gateway' = [gateway EXCEPT !.pc = "done", !.outcome = "returned",
                                  !.result = "female"]
    /\ UNCHANGED << appVars, mediaVars >>

NextGender ==
    \/ GenderResponded
    \/ GenderClassified
    \/ GenderCaught

SpecGender == InitGender /\ [][NextGender]_vars

\* ---- generateVideo, called by handleGenerateVideos / handleRegenerateVideo ----
\* most polls of one operation
MaxPolls == 6

\* the progress messages of the polling loop
messages == << "Analyzing prompt and image...", "Composing video frames...",
               "Rendering video, this can take a while...", "Almost there...",
               "Finalizing the video..." >>

\* Step4Studio.getVideoPrompts, one prompt per clip slot
getVideoPrompts == << "unboxing moment", "product demonstration", "hero shot" >>

\* messages are sequences of fragments; the empty sequence is the empty
\* string, and stands for null where a message may be absent
NoMessage == << >>

\* messages a provider failure can carry
ProviderMessages ==
    { << "Lifetime quota exceeded" >>,
      << "got status: 429. ", "RESOURCE_EXHAUSTED", " quota exceeded" >>,
      << "network error" >>,
      NoMessage }

\* what a rejected provider promise throws: an Error with a message, or a
\* value that is not an Error
Thrown == { [isError |-> TRUE, message |-> m] : m \in ProviderMessages }
            \cup { [isError |-> FALSE, message |-> NoMessage] }

\* nothing was thrown
NotThrown == [isError |-> FALSE, message |-> NoMessage]

\* the operation object of the provider; failed: operation.error is set, with
\* this message; link: response.generatedVideos[0].video.uri is present
Operations ==
    { op \in [done : BOOLEAN, failed : BOOLEAN, message : ProviderMessages, link : BOOLEAN] :
        ~op.failed => op.message = NoMessage }

NoOperation == [done |-> FALSE, failed |-> FALSE, message |-> NoMessage, link |-> FALSE]

\* str.includes(sig), on fragments
Includes(str, sig) == \E i \in 1..Len(str) : str[i] = sig

\* the catch block of generateVideo replacing every message
WrapErrorOpaque(e) == << "An unknown error occurred while generating the video." >>

\* the catch block of generateVideo: the message of the Error it throws
WrapError(e) ==
    IF e.isError THEN << "Failed to generate video: " >> \o e.message
    ELSE << "An unknown error occurred while generating the video." >>

\* the error block of Step4Studio: the copyable prompts it renders
FallbackPrompts(err) ==
    IF Includes(err, "Lifetime quota exceeded") \/ Includes(err, "RESOURCE_EXHAUSTED")
    THEN [ index \in 1..Len(getVideoPrompts) |->
             [label |-> index, prompt |-> getVideoPrompts[index], copy |-> TRUE] ]
    ELSE << >>

\* a generateVideo call at its first await, for image number index (0-based)
VideoCall(caller, index, generated) ==
    [fn |-> "generateVideo", caller |-> caller, index |-> index, generated |-> generated,
     pc |-> "initiate", operation |-> NoOperation, pollCount |-> 0,
     progress |-> << "Initiating video generation..." >>,
     thrown |-> NotThrown, cause |-> NoMessage,
     rejectedCall |-> "none", download |-> "none", outcome |-> "pending",
     result |-> Undef, rejection |-> NoMessage]

ThreeImages == [ i \in 1..NumClips |-> Image(i - 1) ]

\* Step4Studio with three scene images, at the first await of
\* handleGenerateVideos (the video list was just emptied) or of
\* handleRegenerateVideo(index) for one of the videos that are shown
InitVideo ==
    /\ currentStep = 4
    /\ product = [image |-> TRUE, name |-> TRUE]
    /\ model = [image |-> TRUE]
    /\ adsCopy = [script |-> TRUE, audioUrl |-> TRUE]
    /\ AppIdle
    /\ \/ /\ studio = [adImages |-> ThreeImages, adVideos |-> << >>]
          /\ local = [FreshLocal EXCEPT !.isLoading = "videos", !.error = NoMessage]
          /\ gateway = VideoCall("generate", 0, << >>)
       \/ \E n \in 1..NumClips, index \in 0..(NumClips - 1) :
            /\ index < n
            /\ studio = [adImages |-> ThreeImages,
                          adVideos |-> [ i \in 1..n |-> VideoOf(Image(i - 1)) ]]
            /\ local = [FreshLocal EXCEPT !.regeneratingVideoIndex = index,
                                          !.error = NoMessage]
            /\ gateway = VideoCall("regenerate", index, << >>)

\* `throw new Error(message)` inside the try of generateVideo
Throw(g, message, cause) ==
    [g EXCEPT !.pc = "catch", !.thrown = [isError |-> TRUE, message |-> message],
              !.cause = cause]

\* the promise of a provider call rejects with e
Rejects(g, call, e) ==
    [g EXCEPT !.pc = "catch", !.thrown = e, !.cause = e.message, !.rejectedCall = call]

\* `await ai.models.generateVideos(...)` settles; onProgress("Processing...")
GenerateVideosSettled ==
    /\ gateway.fn = "generateVideo"
    /\ gateway.pc = "initiate"
    /\ \/ \E e \in Thrown : gateway' = Rejects(gateway, "generateVideos", e)
       \/ \E op \in Operations :
            gateway' = [gateway EXCEPT
                          !.pc = "loop", !.operation = op,
                          !.progress = Append(@, "Processing video... this may take a few minutes.")]
    /\ UNCHANGED << appVars, mediaVars >>

\* one iteration of `while (!operation.done)`: the 10 s timeout, one progress
\* message, pollCount++, and getVideosOperation settling
PollOperation ==
    /\ gateway.fn = "generateVideo"
    /\ gateway.pc = "loop"
    /\ ~gateway.operation.done
    /\ gateway.pollCount < MaxPolls
    /\ LET g == [gateway EXCEPT
                   !.progress = Append(@, messages[(gateway.pollCount % Len(messages)) + 1]),
                   !.pollCount = @ + 1]
       IN  \/ \E e \in Thrown : gateway' = Rejects(g, "getVideosOperation", e)
           \/ \E op \in Operations : gateway' = [g EXCEPT !.operation = op]
    /\ UNCHANGED << appVars, mediaVars >>

\* OperationChecked without its `if (operation.error)` test
OperationCheckedNoError ==
    /\ gateway.fn = "generateVideo"
    /\ gateway.pc = "loop"
    /\ gateway.operation.done
    /\ gateway' =
         IF ~gateway.operation.link
         THEN Throw(gateway, << "Video generation completed, but no download link was found." >>,
                    NoMessage)
         ELSE [gateway EXCEPT !.pc = "download",
                              !.progress = Append(@, "Downloading generated video...")]
    /\ UNCHANGED << appVars, mediaVars >>

\* the loop ended: the tests of operation.error and of the download link,
\* onProgress("Downloading...") and the fetch being issued
OperationChecked ==
    /\ gateway.fn = "generateVideo"
    /\ gateway.pc = "loop"
    /\ gateway.operation.done
    /\ gateway' =
         IF gateway.operation.failed
         THEN Throw(gateway, << "Video generation failed: " >> \o gateway.operation.message,
                    gateway.operation.message)
         ELSE IF ~gateway.operation.link
         THEN Throw(gateway, << "Video generation completed, but no download link was found." >>,
                    NoMessage)
         ELSE [gateway EXCEPT !.pc = "download",
                              !.progress = Append(@, "Downloading generated video...")]
    /\ UNCHANGED << appVars, mediaVars >>

\* the fetch of the download link settles: it rejects (or blob() does), the
\* response is not OK, or the blob becomes the object URL that is returned
DownloadSettled ==
    /\ gateway.fn = "generateVideo"
    /\ gateway.pc = "download"
    /\ \/ \E e \in Thrown : gateway' = [Rejects(gateway, "fetch", e)
                                           EXCEPT !.download = "rejects"]
       \/ \E statusText \in ProviderMessages :
            gateway' = [Throw(gateway, << "Failed to download video: " >> \o statusText,
                              statusText)
                          EXCEPT !.download = "notOk"]
       \/ gateway' = [gateway EXCEPT
                         !.pc = "resolved", !.download = "ok", !.outcome = "returned",
                         !.result = VideoOf(studio.adImages[gateway.index + 1])]
    /\ UNCHANGED << appVars, mediaVars >>

\* the catch block of generateVideo
VideoCatch ==
    /\ gateway.fn = "generateVideo"
    /\ gateway.pc = "catch"
    /\ gateway' = [gateway EXCEPT !.pc = "rejected", !.outcome = "rejected",
                                  !.rejection = WrapError(gateway.thrown)]
    /\ UNCHANGED << appVars, mediaVars >>

\* the handler goes on after its `await generateVideo(...)`: the video is
\* published and the loop of handleGenerateVideos issues the next call, or
\* catch (`setError(err.message)`) and finally run
VideoCallSettled ==
    /\ gateway.fn = "generateVideo"
    /\ gateway.pc \in { "resolved", "rejected" }
    /\ IF gateway.pc = "rejected"
       THEN /\ local' = [local EXCEPT !.isLoading = Null, !.regeneratingVideoIndex = NoIndex,
                                      !.error = gateway.rejection]
            /\ gateway' = [gateway EXCEPT !.pc = "settled"]
            /\ UNCHANGED studio
       ELSE IF gateway.caller = "regenerate"
       THEN /\ studio' = [studio EXCEPT !.adVideos =
                            ReplaceVideo(studio.adVideos, gateway.index, gateway.result)]
            /\ local' = [local EXCEPT !.regeneratingVideoIndex = NoIndex]
            /\ gateway' = [gateway EXCEPT !.pc = "settled"]
       ELSE LET gen == PushGenerated(gateway.generated, gateway.result)
            IN  /\ studio' = [studio EXCEPT !.adVideos = gen]
                /\ IF gateway.index + 1 < Len(studio.adImages)
                   THEN /\ gateway' = VideoCall("generate", gateway.index + 1, gen)
                        /\ UNCHANGED local
                   ELSE /\ gateway' = [gateway EXCEPT !.pc = "settled", !.generated = gen]
                        /\ local' = [local EXCEPT !.isLoading = Null]
    /\ UNCHANGED << currentStep, product, model, adsCopy, requests, compositions, mediaVars >>

NextVideo ==
    \/ GenerateVideosSettled
    \/ PollOperation
    \/ OperationChecked
    \/ DownloadSettled
    \/ VideoCatch
    \/ VideoCallSettled

SpecVideo == InitVideo /\ [][NextVideo]_vars

\* ---- generateAdImages, called by handleGenerateImages ----
\* most content parts of a candidate
MaxParts == 3

\* a content part: it carries inline image data and/or text, or neither
Parts == [inlineData : BOOLEAN, text : BOOLEAN]

\* what generateContent resolves with: promptFeedback.blockReason is set, the
\* first candidate has content parts, and those parts
ImageResponses ==
    { r \in [blocked : BOOLEAN, hasParts : BOOLEAN,
              parts : UNION { [1..n -> Parts] : n \in 0..MaxParts }] :
        ~r.hasParts => r.parts = << >> }

\* index of the first part with inline data, 0 when there is none
FirstInline(parts) ==
    IF \E k \in 1..Len(parts) : parts[k].inlineData
    THEN CHOOSE k \in 1..Len(parts) :
           parts[k].inlineData /\ \A j \in 1..(k - 1) : ~parts[j].inlineData
    ELSE 0

\* extractImageUrl looking for an image before it looks at the block reason
extractImageUrlImageFirst(response, slot) ==
    IF response.hasParts /\ FirstInline(response.parts) # 0
    THEN [ok |-> TRUE, url |-> Image(slot), part |-> FirstInline(response.parts),
          message |-> NoMessage]
    ELSE [ok |-> FALSE, url |-> Undef, part |-> 0,
          message |-> << "Request was blocked: ", "reason" >>]

\* extractImageUrl(response) for the request of prompt number slot: the data
\* URL it returns and the part it took it from, or the message of the Error
\* it throws
extractImageUrl(response, slot) ==
    IF response.blocked
    THEN [ok |-> FALSE, url |-> Undef, part |-> 0,
          message |-> << "Request was blocked: ", "reason" >>]
    ELSE IF ~response.hasParts
    THEN [ok |-> FALSE, url |-> Undef, part |-> 0,
          message |-> << "Invalid response from the model. No content parts found." >>]
    ELSE IF FirstInline(response.parts) # 0
    THEN [ok |-> TRUE, url |-> Image(slot), part |-> FirstInline(response.parts),
          message |-> NoMessage]
    ELSE IF \E k \in 1..Len(response.parts) : response.parts[k].text
    THEN [ok |-> FALSE, url |-> Undef, part |-> 0,
          message |-> << "The model returned a text response but no image." >>]
    ELSE [ok |-> FALSE, url |-> Undef, part |-> 0,
          message |-> << "No image was generated in the response." >>]

PendingPart == [state |-> "pending", value |-> Undef, reason |-> NotThrown]

\* the value Promise.all(promises) fulfils with: the values in the order of
\* the promises
PromiseAll(promises) == [ i \in 1..Len(promises) |-> promises[i].value ]

\* Promise.all after one of its promises settled
JoinAll(g) ==
    IF g.all # "pending" THEN g
    ELSE IF \E i \in 1..Len(g.promises) : g.promises[i].state = "rejected"
    THEN LET i == CHOOSE i \in 1..Len(g.promises) : g.promises[i].state = "rejected"
         IN  [g EXCEPT !.all = "rejected", !.pc = "catch",
                       !.thrown = g.promises[i].reason]
    ELSE IF \A i \in 1..Len(g.promises) : g.promises[i].state = "fulfilled"
    THEN [g EXCEPT !.all = "fulfilled", !.pc = "resolved", !.outcome = "returned",
                   !.images = PromiseAll(g.promises)]
    ELSE g

\* Step4Studio at the await of handleGenerateImages: both lists were just
\* emptied and the three requests of prompts.map are pending.  The component
\* is either on its first mount, or was remounted (Back, Next) while a video
\* request of the earlier mount had not settled.
InitImages ==
    /\ currentStep = 4
    /\ product = [image |-> TRUE, name |-> TRUE]
    /\ model = [image |-> TRUE]
    /\ adsCopy = [script |-> TRUE, audioUrl |-> TRUE]
    /\ studio = [adImages |-> << >>, adVideos |-> << >>]
    /\ local = [FreshLocal EXCEPT !.isLoading = "images", !.error = NoMessage]
    /\ finalVideo = NoVideo
    /\ requests \in { {},
                       Stale({ Req("videos", NoIndex, ThreeImages) }),
                       Stale({ Req("regenVideo", 1, ThreeImages) }) }
    /\ compositions = {}
    /\ isLoading = FALSE
    /\ error = Null
    /\ captionData = Null
    /\ videoUrls = << >>
    /\ CompositorIdle
    /\ gateway = [fn |-> "generateAdImages", pc |-> "await",
                   promises |-> [ i \in 1..NumClips |-> PendingPart ],
                   arrived |-> << >>, all |-> "pending",
                   thrown |-> NotThrown,
                   outcome |-> "pending", images |-> << >>, rejection |-> NoMessage]

\* the async callback of prompts.map for one prompt settles: generateContent
\* rejected, or extractImageUrl(response) returned or threw; Promise.all
\* reacts.  The other callbacks keep running after Promise.all rejected.
ImagePromiseSettled ==
    /\ gateway.fn = "generateAdImages"
    /\ \E i \in 1..NumClips :
         /\ gateway.promises[i].state = "pending"
         /\ \/ \E e \in Thrown :
                 gateway' = JoinAll([gateway EXCEPT
                              !.promises[i] = [state |-> "rejected", value |-> Undef,
                                               reason |-> e]])
            \/ \E response \in ImageResponses :
                 LET x == extractImageUrl(response, i - 1)
                 IN  gateway' = JoinAll([gateway EXCEPT
                                  !.promises[i] = [state |-> IF x.ok THEN "fulfilled" ELSE "rejected",
                                                   value |-> x.url,
                                                   reason |-> [isError |-> ~x.ok,
                                                               message |-> x.message]],
                                  !.arrived = IF x.ok THEN Append(@, x.url) ELSE @])
    /\ UNCHANGED << appVars, mediaVars >>

\* the catch block of generateAdImages: an Error is rethrown as it is
ImagesCatch ==
    /\ gateway.fn = "generateAdImages"
    /\ gateway.pc = "catch"
    /\ gateway' = [gateway EXCEPT
                     !.pc = "rejected", !.outcome = "rejected",
                     !.rejection =
                        IF gateway.thrown.isError THEN gateway.thrown.message
                        ELSE << "An unknown error occurred while generating ad images." >>]
    /\ UNCHANGED << appVars, mediaVars >>

\* handleGenerateImages goes on after its await: setStudio with the images,
\* or setError; finally
ImagesCallSettled ==
    /\ gateway.fn = "generateAdImages"
    /\ gateway.pc \in { "resolved", "rejected" }
    /\ studio' = (IF gateway.pc = "resolved"
                  THEN [studio EXCEPT !.adImages = gateway.images] ELSE studio)
    /\ local' = [local EXCEPT !.isLoading = Null,
                              !.error = IF gateway.pc = "resolved" THEN @
                                        ELSE gateway.rejection]
    /\ gateway' = [gateway EXCEPT !.pc = "settled"]
    /\ UNCHANGED << currentStep, product, model, adsCopy, requests, compositions, mediaVars >>

NextImages ==
    \/ ImagePromiseSettled
    \/ ImagesCatch
    \/ ImagesCallSettled
    \/ VideoGenerated
    \/ VideoRegenerated

SpecImages == InitImages /\ [][NextImages]_vars

\* ---- the format probe of combineVideosAndAudio on its own ----
\* formats a platform's MediaRecorder may support: the four candidates and two
\* formats the preference list does not name
Formats == Range(mimeTypesToTry) \cup { "ogg", "matroska" }

\* the probe is about to run on a platform, for each set of formats
\* MediaRecorder.isTypeSupported can accept
InitFormat ==
    /\ currentStep = 5
    /\ product = [image |-> TRUE, name |-> TRUE]
    /\ model = [image |-> TRUE]
    /\ adsCopy = [script |-> TRUE, audioUrl |-> TRUE]
    /\ studio = [adImages |-> ThreeImages,
                 adVideos |-> [ i \in 1..NumClips |-> VideoOf(ThreeImages[i]) ]]
    /\ local = FreshLocal
    /\ AppIdle
    /\ gateway \in { [fn |-> "formatProbe", pc |-> "call", supported |-> sup,
                       result |-> [ok |-> FALSE, mimeType |-> Null,
                                   extension |-> Null]] : sup \in SUBSET Formats }

\* lines 678-685: the find over mimeTypesToTry, the throw when nothing is
\* supported, the extension of the format found
FormatProbed ==
    /\ gateway.fn = "formatProbe"
    /\ gateway.pc = "call"
    /\ gateway' =
         [gateway EXCEPT
            !.pc = "done",
            !.result =
               IF SupportedMimeType(gateway.supported) = Null
               THEN [ok |-> FALSE, mimeType |-> Null, extension |-> Null]
               ELSE [ok |-> TRUE,
                     mimeType |-> SupportedMimeType(gateway.supported),
                     extension |-> Extension(SupportedMimeType(gateway.supported))]]
    /\ UNCHANGED << appVars, mediaVars >>

NextFormat == FormatProbed

SpecFormat == InitFormat /\ [][NextFormat]_vars

\* ---- extractImageUrl on its own ----
\* a response of the image model arrives for the first prompt
InitExtract ==
    /\ currentStep = 4
    /\ product = [image |-> TRUE, name |-> TRUE]
    /\ model = [image |-> TRUE]
    /\ adsCopy = [script |-> TRUE, audioUrl |-> TRUE]
    /\ studio = [adImages |-> << >>, adVideos |-> << >>]
    /\ local = [FreshLocal EXCEPT !.isLoading = "images"]
    /\ AppIdle
    /\ gateway \in { [fn |-> "extractImageUrl", pc |-> "call", response |-> r,
                       result |-> [ok |-> FALSE, url |-> Undef, part |-> 0,
                                   message |-> NoMessage]] : r \in ImageResponses }

\* extractImageUrl(response) returns or throws
ImageExtracted ==
    /\ gateway.fn = "extractImageUrl"
    /\ gateway.pc = "call"
    /\ gateway' = [gateway EXCEPT !.pc = "done",
                                  !.result = extractImageUrl(gateway.response, 0)]
    /\ UNCHANGED << appVars, mediaVars >>

NextExtract == ImageExtracted

SpecExtract == InitExtract /\ [][NextExtract]_vars

\* ---- generateCaptionAndHashtags, awaited by handleCombine ----
\* longest answer text, in tokens
MaxCaption == 5

\* an answer is a sequence of tokens: the two labels the patterns look for,
\* a letter, a space, a line break
CaptionChars == { "Caption: ", "Hashtags: ", "x", " ", "\n" }

CaptionTexts == UNION { [1..n -> CaptionChars] : n \in 0..MaxCaption }

\* what ai.models.generateContent does: it rejects, or resolves with a
\* response whose text is a string or is undefined
CaptionResponses ==
    { [kind |-> "rejects", text |-> << >>], [kind |-> "noText", text |-> << >>] }
      \cup { [kind |-> "text", text |-> t] : t \in CaptionTexts }

\* text.match(/<label>(.*)/): the first occurrence of the label, and as group
\* 1 what follows it up to the end of the line
Match(text, label) ==
    LET hits == { i \in 1..Len(text) : text[i] = label }
        first == CHOOSE i \in hits : \A j \in hits : i <= j
        breaks == { i \in 1..Len(text) : i > first /\ text[i] = "\n" }
        stop == IF breaks = {} THEN Len(text) + 1
                ELSE CHOOSE i \in breaks : \A j \in breaks : i <= j
    IN  IF hits = {} THEN [found |-> FALSE, group |-> << >>]
        ELSE [found |-> TRUE, group |-> SubSeq(text, first + 1, stop - 1)]

DefaultCaption == << "Check this out!" >>
DefaultHashtags == << "#fyp #racuntiktok" >>

\* the pair the catch block returns
FallbackCaptions ==
    [caption |-> << "Wajib coba ", "productName", "!" >>,
     hashtags |-> << "#fyp #racuntiktok #productreview #xyzbca #tiktokmademebuyit" >>]

\* lines 306-312: the two matches, the trimmed groups or the defaults
ParseCaptions(text) ==
    [caption |-> IF Match(text, "Caption: ").found
                 THEN Trim(Match(text, "Caption: ").group) ELSE DefaultCaption,
     hashtags |-> IF Match(text, "Hashtags: ").found
                  THEN Trim(Match(text, "Hashtags: ").group) ELSE DefaultHashtags]

\* Step5Finishing's handleCombine has stored the composed video and awaits
\* generateCaptionAndHashtags, whose generateContent request is pending
InitCaption ==
    /\ currentStep = 5
    /\ product = [image |-> TRUE, name |-> TRUE]
    /\ model = [image |-> TRUE]
    /\ adsCopy = [script |-> TRUE, audioUrl |-> TRUE]
    /\ studio = [adImages |-> ThreeImages,
                 adVideos |-> [ i \in 1..NumClips |-> VideoOf(ThreeImages[i]) ]]
    /\ local = FreshLocal
    /\ requests = {}
    /\ compositions = { [clips |-> [ i \in 1..NumClips |-> VideoOf(ThreeImages[i]) ],
                         audio |-> TRUE, stage |-> "captions", live |-> TRUE] }
    /\ \E ext \in { "mp4", "webm" } : finalVideo = [url |-> "blob", extension |-> ext]
    /\ isLoading = TRUE
    /\ error = Null
    /\ captionData = Null
    /\ videoUrls = << >>
    /\ CompositorIdle
    /\ gateway \in { [fn |-> "generateCaptionAndHashtags", pc |-> "await",
                       response |-> r, outcome |-> "pending",
                       result |-> [caption |-> << >>, hashtags |-> << >>]] :
                      r \in CaptionResponses }

\* the generateContent promise settles
CaptionResponded ==
    /\ gateway.fn = "generateCaptionAndHashtags"
    /\ gateway.pc = "await"
    /\ gateway' = [gateway EXCEPT !.pc = IF gateway.response.kind = "rejects"
                                         THEN "catch" ELSE "parse"]
    /\ UNCHANGED << appVars, mediaVars >>

\* `text.match(...)` (a TypeError when text is undefined), the groups or the
\* defaults, and the return
CaptionParsed ==
    /\ gateway.fn = "generateCaptionAndHashtags"
    /\ gateway.pc = "parse"
    /\ gateway' =
         IF gateway.response.kind = "noText"
         THEN [gateway EXCEPT !.pc = "catch"]
         ELSE [gateway EXCEPT !.pc = "done", !.outcome = "returned",
                              !.result = ParseCaptions(gateway.response.text)]
    /\ UNCHANGED << appVars, mediaVars >>

\* the catch block: it returns the fallback pair
CaptionCaught ==
    /\ gateway.fn = "generateCaptionAndHashtags"
    /\ gateway.pc = "catch"
    /\ gateway' = [gateway EXCEPT !.pc = "done", !.outcome = "returned",
                                  !.result = FallbackCaptions]
    /\ UNCHANGED << appVars, mediaVars >>

\* handleCombine after its `await generateCaptionAndHashtags(...)`:
\* setCaptionData(captions) or, had the call thrown, the catch's setError;
\* then finally.  These are setters of Step5Finishing: they do nothing once
\* the component that called handleCombine has unmounted
CaptionCallSettled ==
    /\ gateway.fn = "generateCaptionAndHashtags"
    /\ gateway.pc = "done"
    /\ \E c \in compositions :
         /\ c.stage = "captions"
         /\ compositions' = compositions \ {c}
         /\ captionData' = (IF c.live /\ gateway.outcome = "returned"
                            THEN "captions" ELSE captionData)
         /\ error' = (IF c.live /\ gateway.outcome = "threw"
                      THEN "combineFailed" ELSE error)
         /\ isLoading' = (IF c.live THEN FALSE ELSE isLoading)
    /\ gateway' = [gateway EXCEPT !.pc = "settled"]
    /\ UNCHANGED << currentStep, product, model, adsCopy, studio, local, requests,
                    finalVideo, videoUrls, pc, exitPath, loadVars, recVars, loopVars,
                    playVars, audioPlaying, now >>

NextCaption ==
    \/ CaptionResponded
    \/ CaptionParsed
    \/ CaptionCaught
    \/ CaptionCallSettled
    \/ Step5Back
    \/ Step4Next

SpecCaption == InitCaption /\ [][NextCaption]_vars

\* ------------------------------------------------------------------------
\* Properties of the wizard
\* ------------------------------------------------------------------------
\* every entry of the list that is present was made for the scene of its index
InOrder(a) == \A i \in 1..Len(a) : (IsImage(a[i]) \/ IsVideo(a[i])) => a[i].slot = i - 1

\* new is old with the video of scene i at index i: every other video of old is
\* where it was, and no other video appeared
OnlyEntryReplaced(old, new, i) ==
    /\ Len(new) = (IF i < Len(old) THEN Len(old) ELSE i + 1)
    /\ IsVideo(new[i + 1]) /\ new[i + 1].slot = i
    /\ \A j \in 1..Len(new) :
         j # i + 1 => IF j <= Len(old) /\ IsVideo(old[j]) THEN new[j] = old[j]
                      ELSE ~IsVideo(new[j])

\* this step is request r settling and changing the video list
Publishes(r) == r \in requests /\ r \notin requests' /\ studio'.adVideos # studio.adVideos

\* the clip lists SpecComp starts from are the lists the wizard hands to
\* handleCombine
WizardInputsReachable == \A c \in compositions : c.clips \in ClipLists

\* C5: clip order is preserved end to end.  In every state the scene images,
\* the video list, the list each handleGenerateVideos run has built so far and
\* the list each composition was started with hold at index i only an entry
\* made for scene i; a handleGenerateVideos run publishes the videos of scenes
\* 0..k, all present, in that order; a handleRegenerateVideo(i) that changes
\* the list writes the video of scene i at index i and leaves every other
\* video where it was; handleCombine receives the video list as it is
C5_ClipOrderPreserved ==
    /\ [](/\ InOrder(studio.adImages)
          /\ InOrder(studio.adVideos)
          /\ \A r \in requests :
               /\ InOrder(r.images)
               /\ InOrder(r.generated)
               /\ \A j \in 1..Len(r.generated) : IsVideo(r.generated[j])
          /\ \A c \in compositions : InOrder(c.clips))
    /\ [][/\ \A r \in requests :
               /\ (r.kind = "videos" /\ Publishes(r)) =>
                      /\ Len(studio'.adVideos) = Len(r.generated) + 1
                      /\ \A j \in 1..Len(studio'.adVideos) :
                           IsVideo(studio'.adVideos[j]) /\ studio'.adVideos[j].slot = j - 1
               /\ (r.kind = "regenVideo" /\ Publishes(r)) =>
                      OnlyEntryReplaced(studio.adVideos, studio'.adVideos, r.index)
          /\ \A c \in compositions' \ compositions :
               (c.live /\ c.stage = "combining") => c.clips = studio.adVideos]_vars

\* all three videos were generated in order, a handleRegenerateVideo request
\* was issued for one of them and settled or went stale, and a composition was
\* started with the list
C5_Witness ==
    /\ currentStep = 5
    /\ \E c \in compositions :
         /\ c.live
         /\ c.clips = studio.adVideos
         /\ Len(c.clips) = NumClips
         /\ \A i \in 1..NumClips : IsVideo(c.clips[i]) /\ c.clips[i].slot = i - 1
    /\ \E r \in requests : r.kind = "regenVideo" /\ r.index = 1

\* C6: every composition was started with exactly three entries, each of them
\* a video, and with the narration present
C6_CompositionInputsComplete ==
    \A c \in compositions :
      /\ Len(c.clips) = NumClips
      /\ \A i \in 1..Len(c.clips) : IsVideo(c.clips[i])
      /\ c.audio

\* this step mounts Step5Finishing
EntersFinalStage == currentStep # 5 /\ currentStep' = 5

\* the combineVideosAndAudio calls this step starts
Started == { c \in compositions' \ compositions : c.live /\ c.stage = "combining" }

\* the one call the mount effect is to make: the clips and narration of the
\* state in which the stage is entered
TheCall == [clips |-> studio.adVideos, audio |-> adsCopy.audioUrl,
            stage |-> "combining", live |-> TRUE]

\* C12 as stated: every entry into the final stage starts exactly one
\* composition, with the clips and the narration of that moment
C12_ComposedOncePerEntry == [][EntersFinalStage => Started = { TheCall }]_vars

\* C12 amended: an entry into the final stage starts exactly one composition,
\* with the clips and the narration of that moment, when no final video is
\* stored, and none when one is stored; no other step starts a composition
C12_ComposedOncePerEntryUnlessStored ==
    [][Started = (IF EntersFinalStage /\ finalVideo.url = Null THEN { TheCall } ELSE {})]_vars

\* the final stage was entered again with a final video stored: the fresh
\* component shows it and no composition is running
C12_Witness ==
    /\ currentStep = 5
    /\ finalVideo.url # Null
    /\ captionData = Null
    /\ ~isLoading
    /\ compositions = {}

\* this step is a request of this kind, issued by the mounted component,
\* settling with success: the new artifact is installed and no error is set
SettledOk(kind) ==
    \E r \in requests :
      /\ r.kind = kind /\ r.live
      /\ r \notin requests'
      /\ currentStep' = currentStep
      /\ local'.error = Null

NoStudio == [adImages |-> << >>, adVideos |-> << >>]

\* C13: replacing or regenerating an artifact leaves no later-stage artifact
\* computed from it: a new product or model image leaves no scene images,
\* videos or final video; a script regeneration leaves no narration, scene
\* images, videos or final video; a narration regeneration leaves no final
\* video; a scene-image (re)generation leaves no videos and no final video; a
\* video regeneration leaves no final video
C13_RegenerationClearsDownstream ==
    [][/\ (Step1UploadImage \/ Step2ManualUpload \/ SettledOk("model")) =>
            (studio' = NoStudio /\ finalVideo'.url = Null)
       /\ Step3GenerateScript =>
            (~adsCopy'.audioUrl /\ studio' = NoStudio /\ finalVideo'.url = Null)
       /\ Step3GenerateAudio => finalVideo'.url = Null
       /\ (Step4GenerateImages \/ SettledOk("images") \/ SettledOk("regenImage")) =>
            (studio'.adVideos = << >> /\ finalVideo'.url = Null)
       /\ SettledOk("regenVideo") => finalVideo'.url = Null]_vars

\* the artifacts of the previous stage that stage k is shown with
StageArtifacts(k) ==
    CASE k = 2 -> product.image /\ product.name
      [] k = 3 -> model.image
      [] k = 4 -> adsCopy.script /\ adsCopy.audioUrl
      [] k = 5 -> /\ Len(studio.adVideos) = NumClips
                  /\ \A i \in 1..NumClips : IsVideo(studio.adVideos[i])
                  /\ adsCopy.audioUrl
      [] OTHER -> TRUE

NextAction == Step1Next \/ Step2Next \/ Step3Next \/ Step4Next

\* C14: a stage is shown only with the previous stage's artifacts (stage 2: a
\* product image and a non-blank name; stage 3: a model image; stage 4: a
\* non-empty script and a narration; stage 5: three videos and a narration),
\* and a Next action without them leaves the stage unchanged and reports an
\* error
C14_StagesGatedByArtifacts ==
    /\ []StageArtifacts(currentStep)
    /\ [][(NextAction /\ ~StageArtifacts(currentStep + 1)) =>
            (currentStep' = currentStep /\ local'.error # Null)]_vars

BackAction == Step2Back \/ Step3Back \/ Step4Back \/ Step5Back

\* the render guard of stage k redirects in the state this step leads to
GuardFails(k) == RenderedStep(k, product', model', adsCopy', studio') # k

\* C15: the current stage is always one of 1..5 and every transition is
\* linear: Next moves from k to k+1; Back and the missing-artifact guards move
\* from k to k-1, so a stage is only passed on the way down when its own guard
\* redirects; the only jump is the restart, which goes to stage 1
C15_TransitionsLinear ==
    /\ [](currentStep \in 1..5)
    /\ [][/\ currentStep' > currentStep =>
               (NextAction /\ currentStep' = currentStep + 1)
          /\ currentStep' < currentStep =>
               \/ Step5Reset /\ currentStep' = 1
               \/ /\ BackAction \/ GuardFails(currentStep)
                  /\ \A k \in (currentStep' + 1)..(currentStep - 1) : GuardFails(k)
                  /\ ~GuardFails(currentStep')]_vars

\* the wizard went up to stage 5 and came back down to stage 3, where the
\* script is missing: Next, Back and a guard have all acted
C15_Witness ==
    /\ currentStep = 3
    /\ ~adsCopy.script
    /\ Len(studio.adVideos) = NumClips
    /\ compositions # {}

\* the save button is rendered: stage 5 presents a composed video
PresentsVideo == currentStep = 5 /\ ~isLoading /\ finalVideo.url # Null

\* C16: whenever stage 5 presents a composed video (a final video is stored
\* and nothing is loading), the save action produces both downloads, the video
\* file with the extension chosen at composition time and the caption text
\* file, on every entry to stage 5
C16_SaveProducesBothFiles ==
    PresentsVideo =>
        \E ext \in {"mp4", "webm"} :
            handleDownload = { [name |-> "vidabot-caption", extension |-> "txt"],
                               [name |-> "vidabot-ad", extension |-> ext] }

\* ------------------------------------------------------------------------
\* Properties of the gateway
\* ------------------------------------------------------------------------
\* the answer is the word "male" in any letter case between optional spaces
SaysMale(r) ==
    /\ r.kind = "text"
    /\ \E i \in 0..Len(r.text) :
         /\ i + 4 <= Len(r.text)
         /\ \A k \in 1..i : r.text[k] = " "
         /\ r.text[i + 1] \in { "m", "M" }
         /\ r.text[i + 2] = "a"
         /\ r.text[i + 3] = "l"
         /\ r.text[i + 4] = "e"
         /\ \A k \in (i + 5)..Len(r.text) : r.text[k] = " "

\* C17: determineModelGender never raises; it returns 'male' exactly when the
\* provider's answer, trimmed and lower-cased, is 'male', and 'female' on a
\* provider failure and on every other answer
C17_GenderDefaultsToFemale ==
    /\ gateway.outcome # "raised"
    /\ gateway.pc = "done" =>
         /\ gateway.outcome = "returned"
         /\ gateway.result = (IF SaysMale(gateway.response) THEN "male" ELSE "female")

C17_Witness ==
    /\ gateway.pc = "done"
    /\ gateway.response.kind = "text"
    /\ gateway.response.text = << " ", "M", "a", "l", "e", " " >>
    /\ gateway.result = "male"

\* the progress messages a call has emitted when it polled n times
PollMessages(n) == [ k \in 1..n |-> messages[((k - 1) % Len(messages)) + 1] ]

ExpectedProgress(g) ==
    << "Initiating video generation..." >>
      \o (IF g.rejectedCall = "generateVideos" THEN << >>
          ELSE << "Processing video... this may take a few minutes." >>)
      \o PollMessages(g.pollCount)
      \o (IF g.download = "none" THEN << >> ELSE << "Downloading generated video..." >>)

\* C20 as stated: generateVideo emits one progress message per poll and
\* settles only after the operation is done; it fails if the operation carries
\* an error, has no download link or the download response is not OK, and
\* otherwise returns the downloaded video
C20_SettlesOnlyAfterDone ==
    gateway.outcome # "pending" =>
        /\ gateway.operation.done
        /\ gateway.progress = ExpectedProgress(gateway)
        /\ gateway.outcome = "rejected" <=>
              \/ gateway.operation.failed
              \/ ~gateway.operation.link
              \/ gateway.download = "notOk"
        /\ gateway.outcome = "returned" =>
              (IsVideo(gateway.result) /\ ~gateway.operation.failed)

\* C20 (amended): generateVideo polls until the operation is done unless a
\* provider call rejects, with one progress message per poll; it returns the
\* downloaded video only for an operation that is done, carries no error and
\* has a download link whose response is OK; it fails if the operation carries
\* an error, has no link, the response is not OK, or the initiating call, a
\* poll or the download rejects
C20_SettlesAfterDoneUnlessCallRejects ==
    gateway.outcome # "pending" =>
        /\ gateway.operation.done \/ gateway.rejectedCall \in { "generateVideos", "getVideosOperation" }
        /\ gateway.progress = ExpectedProgress(gateway)
        /\ gateway.outcome = "rejected" <=>
              \/ gateway.rejectedCall # "none"
              \/ gateway.operation.failed
              \/ ~gateway.operation.link
              \/ gateway.download = "notOk"
        /\ gateway.outcome = "returned" =>
              /\ IsVideo(gateway.result)
              /\ gateway.operation.done
              /\ ~gateway.operation.failed
              /\ gateway.operation.link
              /\ gateway.download = "ok"

\* a video returned after the polling loop went once round its message list
C20_Witness ==
    /\ gateway.outcome = "returned"
    /\ gateway.pollCount = MaxPolls
    /\ gateway.progress[Len(gateway.progress) - 1] = messages[1]

\* the provider's failure is a resource-exhaustion failure
HasSignature(message) ==
    Includes(message, "Lifetime quota exceeded") \/ Includes(message, "RESOURCE_EXHAUSTED")

\* C18: a resource-exhaustion failure of the provider, in a run of
\* handleGenerateVideos or of handleRegenerateVideo, leaves stage 4 showing
\* the fallback block with exactly three copyable prompts, one per clip slot,
\* however many clips there are; the signature is still in the message after
\* the gateway wrapped it
C18_QuotaShowsThreePrompts ==
    (gateway.pc = "settled" /\ gateway.outcome = "rejected" /\ HasSignature(gateway.cause)) =>
        /\ currentStep = 4
        /\ HasSignature(local.error)
        /\ Len(FallbackPrompts(local.error)) = NumClips
        /\ \A i \in 1..NumClips :
             /\ FallbackPrompts(local.error)[i].prompt = getVideoPrompts[i]
             /\ FallbackPrompts(local.error)[i].copy

\* the third call of a generate-all run failed with the signature: two clips
\* are shown next to the fallback prompts
C18_Witness ==
    /\ gateway.pc = "settled"
    /\ gateway.outcome = "rejected"
    /\ gateway.caller = "generate"
    /\ Len(studio.adVideos) = 2
    /\ gateway.rejectedCall = "none"
    /\ Includes(gateway.cause, "RESOURCE_EXHAUSTED")
    /\ Len(FallbackPrompts(local.error)) = NumClips

\* C19: image generation is all-or-nothing: once handleGenerateImages has
\* settled, the scene-image list holds exactly three images in prompt order,
\* in whatever order the requests completed, or the call failed as a whole and
\* the scene-image list and the video list are both empty
C19_BatchAllOrNothing ==
    (gateway.fn = "generateAdImages" /\ gateway.pc = "settled") =>
        IF gateway.outcome = "returned"
        THEN studio.adImages = << Image(0), Image(1), Image(2) >>
        ELSE studio.adImages = << >> /\ studio.adVideos = << >>

\* the message names the provider's refusal
IsBlockedFailure(result) == ~result.ok /\ result.message[1] = "Request was blocked: "

\* C21: extractImageUrl fails with the distinct blocked failure whenever the
\* response carries a block reason, even next to an image; otherwise it
\* returns the first inline image part; otherwise it fails with a failure
\* that is not the blocked one; what it returns is always an image
C21_BlockedBeforeImage ==
    (gateway.fn = "extractImageUrl" /\ gateway.pc = "done") =>
        LET r == gateway.response
            x == gateway.result
            inline == { k \in 1..Len(r.parts) : r.parts[k].inlineData }
        IN  /\ r.blocked => IsBlockedFailure(x)
            /\ (~r.blocked /\ inline # {}) =>
                   /\ x.ok
                   /\ IsImage(x.url)
                   /\ x.part \in inline
                   /\ \A k \in inline : x.part <= k
            /\ (~r.blocked /\ inline = {}) =>
                   (~x.ok /\ x.message # NoMessage /\ ~IsBlockedFailure(x))
            /\ x.ok => IsImage(x.url)

\* a blocked response that also carries an image, after a text part
C21_Witness ==
    /\ gateway.fn = "extractImageUrl"
    /\ gateway.pc = "done"
    /\ gateway.response.blocked
    /\ Len(gateway.response.parts) = 2
    /\ ~gateway.response.parts[1].inlineData
    /\ gateway.response.parts[2].inlineData
    /\ IsBlockedFailure(gateway.result)

\* C22: for every set of formats the platform supports, the format chosen is
\* the first supported entry of (MP4 with codecs, MP4, WebM with codecs,
\* WebM); the extension is "webm" exactly when a WebM format was chosen and
\* "mp4" otherwise; with no candidate supported the probe fails and chooses
\* no format
C22_FirstSupportedFormat ==
    (gateway.fn = "formatProbe" /\ gateway.pc = "done") =>
        LET preference == << "mp4codecs", "mp4", "webmcodecs", "webm" >>
            sup == gateway.supported
            x == gateway.result
            hits == { i \in 1..4 : preference[i] \in sup }
        IN  /\ hits = {} => (~x.ok /\ x.mimeType = Null /\ x.extension = Null)
            /\ hits # {} =>
                   /\ x.ok
                   /\ \E i \in hits : /\ x.mimeType = preference[i]
                                       /\ \A j \in hits : i <= j
                   /\ x.extension = "webm" <=> x.mimeType \in { "webmcodecs", "webm" }
                   /\ x.extension # "webm" => x.extension = "mp4"

\* a platform with plain MP4 and both WebM formats but without the MP4 codecs
C22_Witness ==
    /\ gateway.fn = "formatProbe"
    /\ gateway.pc = "done"
    /\ gateway.supported = { "mp4", "webmcodecs", "webm", "ogg" }
    /\ gateway.result.mimeType = "mp4"
    /\ gateway.result.extension = "mp4"

\* the step is the ended handler of the clip that is playing
ClipEndedStep == playing # 0 /\ now = clipEndAt /\ clipEndAt' # clipEndAt

\* C24: the active clip index is 0 when the playback chain starts, goes up by
\* exactly one in each clip-ended step and in no other step, and stays within
\* the number of clips; advancing to an existing clip starts that clip from
\* position 0 (or its play() call is rejected), advancing past the end starts
\* nothing, and a clip is started only when no other clip is in mid-play
C24_ClipIndexAdvancesByOne ==
    /\ [](/\ currentVideoIndex \in 0..Len(videos)
          /\ playing # 0 => playing = currentVideoIndex + 1)
    /\ [][/\ (pc = "loading" /\ pc' = "recording") => currentVideoIndex' = 0
          /\ ClipEndedStep => currentVideoIndex' = currentVideoIndex + 1
          /\ (pc = "recording" /\ currentVideoIndex' # currentVideoIndex) => ClipEndedStep
          /\ (ClipEndedStep /\ currentVideoIndex' < Len(videos)
                /\ videos[currentVideoIndex' + 1] # 0) =>
                \/ /\ playing' = currentVideoIndex' + 1
                   /\ clipEndAt' = now + videos[currentVideoIndex' + 1]
                \/ playing' = 0 /\ playRejected'
          /\ (ClipEndedStep /\ currentVideoIndex' >= Len(videos)) =>
                (playing' = 0 /\ playRejected' = playRejected)
          /\ (playing' # 0 /\ clipEndAt' # clipEndAt) =>
                (playing = 0 \/ now = clipEndAt)
         ]_vars

\* the last of three clips has ended while the recorder is still recording:
\* the index stands at the number of clips and nothing is playing
C24_Witness ==
    /\ pc = "recording"
    /\ recorder = "recording"
    /\ Len(videos) = NumClips
    /\ currentVideoIndex = NumClips
    /\ playing = 0
    /\ ~playFailed

\* the step is resetState: only it takes the wizard from stage 5 to stage 1
ResetStep == currentStep = 5 /\ currentStep' = 1

\* the step is a combineVideosAndAudio promise resolving in handleCombine
CompositionSucceeds ==
    \E c \in compositions :
       /\ c.stage = "combining"
       /\ [c EXCEPT !.stage = "captions"] \in compositions'

\* C23: the final video gets a non-empty value only in the step in which a
\* composition succeeds, and the restart step leaves product, model, script,
\* narration, scene images, videos and final video at their initial empty
\* values and the stage at 1
C23_FinalVideoFrame ==
    [][/\ (finalVideo'.url # Null /\ finalVideo' # finalVideo) => CompositionSucceeds
       /\ ResetStep =>
            /\ currentStep' = 1
            /\ product' = [image |-> FALSE, name |-> FALSE]
            /\ model' = [image |-> FALSE]
            /\ adsCopy' = [script |-> FALSE, audioUrl |-> FALSE]
            /\ studio' = [adImages |-> << >>, adVideos |-> << >>]
            /\ finalVideo' = [url |-> Null, extension |-> "mp4"]
      ]_vars

\* the flow was restarted from a final stage that had a final video
C23_Witness ==
    /\ currentStep = 1
    /\ ~product.image
    /\ ~adsCopy.audioUrl
    /\ studio.adVideos = << >>
    /\ finalVideo.url = Null
    /\ \E c \in compositions : c.stage = "captions"

\* the handleCombine calls whose combineVideosAndAudio has not settled: each
\* has its own recorder, narration playback and render loop
Composing == { c \in compositions : c.stage = "combining" }

\* C25: at most one composition is in progress at any time, also after the
\* user left the final stage with Back during a composition and entered it
\* again
C25_AtMostOneComposition == Cardinality(Composing) <= 1

\* the flow was restarted and the user has not given a product image since:
\* no composition can have been started after the restart
RestartedAndEmpty == ~product.image

\* C27: after a restart the final video stays empty until a composition that
\* was started after the restart completes; a composition in flight at the
\* restart never stores its result
C27_RestartKeepsFinalVideoEmpty == RestartedAndEmpty => finalVideo.url = Null

\* C26: every entry of the video list is a video generated from the scene
\* image that is now at the same index; a request of before an image
\* regeneration or of before a Back from stage 4 never writes the list
C26_VideosMatchImages ==
    \A i \in 1..Len(studio.adVideos) :
       /\ IsVideo(studio.adVideos[i])
       /\ i <= Len(studio.adImages)
       /\ IsImage(studio.adImages[i])
       /\ studio.adVideos[i] = VideoOf(studio.adImages[i])

\* C28: narration audio that is present was synthesized from the script the
\* wizard now holds: there is no audio next to an empty script (no narration
\* is synthesized from one), and a step that changes the script while audio
\* is present leaves no audio
C28_AudioMatchesScript ==
    /\ [](adsCopy.audioUrl => adsCopy.script)
    /\ [][(adsCopy.audioUrl /\ adsCopy'.script # adsCopy.script) => ~adsCopy'.audioUrl]_vars

\* C29: a voice gender the user selected by hand stays until the user
\* selects again (or restarts): no gender detection, pending at the selection
\* or started by a later mount of stage 3, replaces it
C29_SelectedGenderStays ==
    adsCopy.selected # Null => adsCopy.voiceGender = adsCopy.selected

\* generateCaptionAndHashtags has returned or thrown
CaptionCallOver ==
    gateway.fn = "generateCaptionAndHashtags" /\ gateway.pc \in { "done", "settled" }

\* the call never throws: a rejected request (or an answer without text)
\* gives the fallback pair, an answer with neither label the default pair
CaptionNeverRaises ==
    CaptionCallOver =>
        LET r == gateway.response
        IN  /\ gateway.outcome = "returned"
            /\ r.kind \in { "rejects", "noText" } =>
                  gateway.result = [caption |-> << "Wajib coba ", "productName", "!" >>,
                                    hashtags |-> << "#fyp #racuntiktok #productreview #xyzbca #tiktokmademebuyit" >>]
            /\ (/\ r.kind = "text"
                /\ \A i \in 1..Len(r.text) : r.text[i] \notin { "Caption: ", "Hashtags: " }) =>
                  gateway.result = [caption |-> << "Check this out!" >>,
                                    hashtags |-> << "#fyp #racuntiktok" >>]

\* the final stage is shown and the handleCombine call has finished
FinalStageAtRest ==
    currentStep = 5 /\ gateway.fn = "generateCaptionAndHashtags" /\ gateway.pc = "settled"

\* C30: caption generation never raises (fallback pair on a provider failure,
\* default values on an unparsable answer), so after a successful composition
\* the final stage ends with the final video stored, caption data set,
\* loading cleared and no error shown
C30_CaptionsAlwaysArrive ==
    /\ CaptionNeverRaises
    /\ FinalStageAtRest =>
          /\ finalVideo.url # Null
          /\ captionData # Null
          /\ ~isLoading
          /\ error = Null

====
